---- MODULE Spec2Model ----
(***************************************************************************)
(* Model of the mapban veto server (backend entry point, the socket.io     *)
(* event handlers on the process-wide lobby store).                        *)
(*                                                                         *)
(* One action per inbound event handler.  An action is the whole handler:  *)
(* the store mutation, every emit it makes (applied, in emission order, to *)
(* the receiving connections' view of their capabilities) and every timer  *)
(* it arms.  The 100 ms timer armed by startGame is a step of its own.     *)
(***************************************************************************)
EXTENDS Integers, Sequences, FiniteSets, TLC

(***************************************************************************)
(* Universe of the model.                                                  *)
(***************************************************************************)
\* connection ids (socket.id)
Sockets == {"s1", "s2", "s3"}
\* lobby ids used by clients
LobbyIds == {"L1"}
\* the id io.to("") addresses: no connection
NoSocket == ""
\* the target of io.emit: every connection
Everyone == "*"
\* team names as typed by clients, before sanitizeInput
RawNames == {"A", "B", " A "}
\* team names after sanitizeInput
Names == {"A", "B"}
\* JavaScript undefined, for a field holding a team name
Undefined == "undefined"
\* a key that was never set on lobby.rules ("lastWinner" in lobby.rules is false)
Absent == "absent"

\* bound on |bannedMaps| + |pickedMaps| of a lobby
MaxEntries == 2
\* bound on the bannedMaps and pickedMaps entries of one Splatoon round
MaxRoundEntries == 6
\* bound on gameStep
MaxStep == 7
\* bound on rules.roundNumber
MaxRound == 2
\* bound on |bannedModes|
MaxModeBans == 2
\* bound on |bannedMaps| and on |bannedModes| of a lobby an OBS view is pointed at
MaxObsEntries == 1

CapNames == {"canWorkUpdated", "canBan", "canPick", "canModeBan", "canModePick",
             "canReportWinner"}
SubCaps == {"canBan", "canPick", "canModeBan", "canModePick"}

VARIABLES
    lobbies,      \* the store: lobby id -> Lobby (a Map; its domain are the ids present)
    rooms,        \* socket -> the transport rooms it joined
    sockLobbies,  \* socket -> socket.data.lobbies
    connected,    \* the open connections
    caps,         \* socket -> capability event name -> last value received
    timers,       \* armed setTimeout callbacks of startGame: their target socket ids
    obsView,      \* socket -> the lists and modes an OBS view page shows: last values received
    startPick,    \* socket -> the map of the backend.startPick it has to answer, "" when none
    mapPool,      \* mapPool.fps[gameName]: the map pool new FPS lobbies are created on
    globalCoinFlip \* the coin flip setting of lobbies created without one

vars == <<lobbies, rooms, sockLobbies, connected, caps, timers, obsView, startPick, mapPool, globalCoinFlip>>

(***************************************************************************)
(* Catalog (games/fps-games, games/splatoon).                              *)
(***************************************************************************)
\* FPSGames.startMapPool[gameName]: seven maps
startMapPool == <<"m1", "m2", "m3", "m4", "m5", "m6", "m7">>
\* a map name no pool contains
ForeignMap == "mX"

\* FPSGames.mapRulesLists[gameType]
mapRulesLists(gameType) ==
    CASE gameType = "bo1" -> <<"ban", "ban", "ban", "ban", "ban", "ban", "pick">>
      [] gameType = "bo3" -> <<"ban", "ban", "pick", "pick", "ban", "ban", "decider">>
      [] gameType = "bo5" -> <<"ban", "ban", "pick", "pick", "pick", "pick", "decider">>

\* Splatoon.gameModes
gameModes == <<"zones", "tower", "rainmaker", "clams">>

\* mapPool.splatoon[mode]
splatoonMapPool(mode) ==
    <<"p1", "p2", "p3", "p4", "p5", "p6">>

\* sanitizeInput: trims the name
sanitizeInput(raw) == IF raw = " A " THEN "A" ELSE raw

\* getGameCategory
getGameCategory(gameName) == IF gameName = "splatoon" THEN "splatoon" ELSE "fps"

(***************************************************************************)
(* Helpers: sequences, the ordered teamNames Map, emits.                   *)
(***************************************************************************)
Range(s) == {s[i] : i \in 1..Len(s)}

\* Array.prototype.slice(0, n)
Slice(s, n) == [i \in 1..(IF n < Len(s) THEN n ELSE Len(s)) |-> s[i]]

\* pattern[gameStep], JavaScript's 0-based index; undefined past the end
RuleAt(list, step) == IF step + 1 \in 1..Len(list) THEN list[step + 1] ELSE Undefined

\* Map.has
HasTeam(tn, s) == \E i \in 1..Len(tn) : tn[i].id = s

\* Map.get
TeamOf(tn, s) ==
    IF HasTeam(tn, s) THEN tn[CHOOSE i \in 1..Len(tn) : tn[i].id = s].name ELSE Undefined

\* Map.set: an existing key keeps its place, a new key goes last
MapSet(tn, s, n) ==
    IF HasTeam(tn, s)
    THEN [i \in 1..Len(tn) |-> IF tn[i].id = s THEN [id |-> s, name |-> n] ELSE tn[i]]
    ELSE Append(tn, [id |-> s, name |-> n])

\* Map.delete
MapDelete(tn, s) == SelectSeq(tn, LAMBDA e : e.id # s)

\* the least index of a non-empty set of indices, 0 for the empty set: where a
\* loop over teamNames.entries() breaks
FirstIndex(idx) == IF idx = {} THEN 0 ELSE CHOOSE i \in idx : \A j \in idx : i <= j

\* the loop "for (const [id, name] of lobby.teamNames.entries()) if (name !== teamName) ... break"
OtherIndex(tn, teamName) == FirstIndex({i \in 1..Len(tn) : tn[i].name # teamName})
OtherSocketId(tn, teamName) ==
    IF OtherIndex(tn, teamName) = 0 THEN NoSocket ELSE tn[OtherIndex(tn, teamName)].id
OtherName(tn, teamName) ==
    IF OtherIndex(tn, teamName) = 0 THEN "" ELSE tn[OtherIndex(tn, teamName)].name

\* the loop "... if (name === team) ... break"
TeamIndex(tn, team) == FirstIndex({i \in 1..Len(tn) : tn[i].name = team})
SocketOfTeam(tn, team) ==
    IF TeamIndex(tn, team) = 0 THEN NoSocket ELSE tn[TeamIndex(tn, team)].id

\* one emitted event: io.to(to).emit(ev, val)
E(to, ev, val) == [to |-> to, ev |-> ev, val |-> val]

\* the connections io.to(to) reaches: a connection's own room, or a joined room
Recipients(to) ==
    IF to \in Sockets THEN {to} \cap connected
    ELSE IF to = Everyone THEN connected
    ELSE {s \in connected : to \in rooms[s]}

\* a connection's capabilities after it received event e
Receive(c, e) ==
    [s \in Sockets |->
        IF s \in Recipients(e.to) /\ e.ev \in CapNames
        THEN [c[s] EXCEPT ![e.ev] = e.val]
        ELSE c[s]]

RECURSIVE ApplyEmits(_, _)
ApplyEmits(c, es) ==
    IF es = <<>> THEN c ELSE ApplyEmits(Receive(c, Head(es)), Tail(es))

\* Map.set on the store
Put(id, lobby) ==
    [i \in DOMAIN lobbies \cup {id} |-> IF i = id THEN lobby ELSE lobbies[i]]

\* Map.delete on the store
Remove(id) == [i \in DOMAIN lobbies \ {id} |-> lobbies[i]]

NoCaps == [c \in CapNames |-> FALSE]
NoMode == [mode |-> Undefined, teamName |-> Undefined]
\* what an OBS view page shows before it received anything
NoView == [pickedMaps |-> <<>>, bannedMaps |-> <<>>, bannedModes |-> <<>>,
           pickedMode |-> NoMode]

(***************************************************************************)
(* Init: the server is up, the connections are open, the store is empty.   *)
(***************************************************************************)
Init ==
    /\ lobbies = <<>>
    /\ rooms = [s \in Sockets |-> {}]
    /\ sockLobbies = [s \in Sockets |-> {}]
    /\ connected = Sockets
    /\ caps = [s \in Sockets |-> NoCaps]
    /\ timers = {}
    /\ obsView = [s \in Sockets |-> NoView]
    /\ startPick = [s \in Sockets |-> ""]
    /\ mapPool = startMapPool
    /\ globalCoinFlip = TRUE

\* the effect of a handler on one lobby: the lobby as the handler leaves it, the
\* events it emits in emission order, the timers it arms
Result(lobby, emits, armed) ==
    [hit |-> TRUE, lobby |-> lobby, emits |-> emits, armed |-> armed]

\* the effect of a handler that wrote no lobby
Miss(emits) == [hit |-> FALSE, emits |-> emits, armed |-> {}]

\* a handler's effect r on lobby id, committed to the store and the clients'
\* capabilities
Commit(id, r) ==
    /\ lobbies' = IF r.hit THEN Put(id, r.lobby) ELSE lobbies
    /\ caps' = ApplyEmits(caps, r.emits)
    /\ timers' = timers \cup r.armed
    /\ UNCHANGED <<rooms, sockLobbies, connected, obsView, mapPool, globalCoinFlip>>

\* a handler's effect r on lobby id, at clients that keep no side request
Do(id, r) == Commit(id, r) /\ UNCHANGED startPick

(***************************************************************************)
(* createFPSLobby / createSplatoonLobby                                    *)
(***************************************************************************)
NewFPSLobby(gameType, knifeDecider, mapPoolSize, coinFlip, admin) ==
    [ family |-> "fps",
      members |-> {}, teamNames |-> <<>>, observers |-> {},
      pickedMaps |-> <<>>, bannedMaps |-> <<>>,
      rules |-> [ gameType |-> gameType,
                  mapNames |-> IF mapPoolSize = 4 THEN Slice(mapPool, 4)
                               ELSE mapPool,
                  mapRulesList |-> mapRulesLists(gameType),
                  coinFlip |-> coinFlip, admin |-> admin,
                  knifeDecider |-> knifeDecider, mapPoolSize |-> mapPoolSize,
                  modesRulesList |-> <<>>, activeModes |-> <<>>,
                  roundNumber |-> 0, lastWinner |-> Absent, modesSize |-> 0 ],
      gameStep |-> 7 - mapPoolSize,
      deciderMap |-> Undefined,
      bannedModes |-> <<>>, pickedMode |-> NoMode,
      priorityTeam |-> Undefined, roundHistory |-> <<>> ]

\* createFPSLobby without the test "if (!lobby)": the request replaces the lobby
createFPSLobbyAnew(s, id, gameType, knifeDecider, mapPoolSize, coinFlip, admin) ==
    IF gameType \in {"bo3", "bo5"} /\ mapPoolSize # 7
    THEN Miss(<<E(s, "lobbyCreationError", TRUE)>>)
    ELSE Result(NewFPSLobby(gameType, knifeDecider, mapPoolSize, coinFlip, admin),
                <<E(s, "lobbyCreated", TRUE), E(Everyone, "lobbiesUpdated", TRUE)>>, {})

\* createFPSLobby without the rule validation
createFPSLobbyUnvalidated(s, id, gameType, knifeDecider, mapPoolSize, coinFlip, admin) ==
    IF id \in DOMAIN lobbies
    THEN Miss(<<>>)
    ELSE Result(NewFPSLobby(gameType, knifeDecider, mapPoolSize, coinFlip, admin),
                <<E(s, "lobbyCreated", TRUE), E(Everyone, "lobbiesUpdated", TRUE)>>, {})

createFPSLobby(s, id, gameType, knifeDecider, mapPoolSize, coinFlip, admin) ==
    IF gameType \in {"bo3", "bo5"} /\ mapPoolSize # 7
    THEN Miss(<<E(s, "lobbyCreationError", TRUE)>>)
    ELSE IF id \in DOMAIN lobbies
    THEN Miss(<<>>)
    ELSE Result(NewFPSLobby(gameType, knifeDecider, mapPoolSize, coinFlip, admin),
                           <<E(s, "lobbyCreated", TRUE),
                             E(Everyone, "lobbiesUpdated", TRUE)>>, {})

NewSplatoonLobby(modesSize, coinFlip, admin) ==
    [ family |-> "splatoon",
      members |-> {}, teamNames |-> <<>>, observers |-> {},
      pickedMaps |-> <<>>, bannedMaps |-> <<>>,
      rules |-> [ gameType |-> "bo3",
                  mapNames |-> <<>>,
                  mapRulesList |-> <<"ban", "ban", "ban", "ban", "ban", "pick">>,
                  coinFlip |-> coinFlip, admin |-> admin,
                  knifeDecider |-> FALSE, mapPoolSize |-> 32,
                  modesRulesList |-> IF modesSize = 4 THEN <<"ban", "ban", "pick">>
                                     ELSE <<"pick">>,
                  activeModes |-> IF modesSize = 2 THEN <<"tower", "zones">>
                                  ELSE gameModes,
                  roundNumber |-> 1, lastWinner |-> Absent, modesSize |-> modesSize ],
      gameStep |-> 0,
      deciderMap |-> Undefined,
      bannedModes |-> <<>>, pickedMode |-> NoMode,
      priorityTeam |-> Undefined, roundHistory |-> <<>> ]

createSplatoonLobby(s, id, modesSize, coinFlip, admin) ==
    IF id \in DOMAIN lobbies
    THEN Miss(<<>>)
    ELSE Result(NewSplatoonLobby(modesSize, coinFlip, admin),
                           <<E(s, "lobbyCreated", TRUE),
                             E(Everyone, "lobbiesUpdated", TRUE)>>, {})

(***************************************************************************)
(* joinLobby                                                               *)
(***************************************************************************)
\* what joinLobby emits
joinLobbyEmits(s, id, role) ==
    IF role = "test"
    THEN <<E(s, IF id \in DOMAIN lobbies THEN "lobbyExists" ELSE "lobbyUndefined", TRUE)>>
    ELSE IF id \notin DOMAIN lobbies
    THEN <<E(s, "lobbyUndefined", TRUE)>>
    ELSE LET lobby == lobbies[id] IN
         (IF lobby.family = "splatoon"
          THEN <<E(s, "modesSizeUpdated", TRUE)>>
          ELSE <<E(s, "fpsLobbySettings", TRUE)>>)
         \o <<E(id, "mapNames", TRUE), E(id, "gameName", TRUE)>>
         \o (IF role = "member" THEN <<E(s, "teamNamesUpdated", TRUE)>> ELSE <<>>)
         \o (IF Len(lobby.pickedMaps) > 0 THEN <<E(s, "pickedUpdated", TRUE)>> ELSE <<>>)
         \o (IF Len(lobby.bannedMaps) > 0 THEN <<E(s, "bannedUpdated", TRUE)>> ELSE <<>>)

joinLobby(s, id, role) ==
    /\ rooms' = [rooms EXCEPT ![s] = @ \cup {id}]
    /\ UNCHANGED <<connected, timers, caps, obsView, startPick, mapPool, globalCoinFlip>>
    /\ IF role = "test" \/ id \notin DOMAIN lobbies
       THEN UNCHANGED <<lobbies, sockLobbies>>
       ELSE /\ lobbies' = Put(id,
                   IF role = "observer" THEN [lobbies[id] EXCEPT !.observers = @ \cup {s}]
                   ELSE IF role = "member" THEN [lobbies[id] EXCEPT !.members = @ \cup {s}]
                   ELSE lobbies[id])
            /\ sockLobbies' = [sockLobbies EXCEPT ![s] = @ \cup {id}]

(***************************************************************************)
(* startGame                                                               *)
(***************************************************************************)
\* the coin: Math.random picks one of the two teams
Flips == {0, 1}

\* FPSGames.startGame: the first actor (the coin's pick, or the first-inserted
\* team) is granted the capability pattern[gameStep] dictates
FPSStartGame(lobby, id, flip) ==
    LET tn == lobby.teamNames
        idx == IF lobby.rules.coinFlip THEN flip + 1 ELSE 1
        first == IF idx \in 1..Len(tn) THEN tn[idx].id ELSE NoSocket
        rule == RuleAt(lobby.rules.mapRulesList, lobby.gameStep)
    IN  Result(lobby,
               (IF lobby.rules.coinFlip THEN <<E(id, "coinFlip", TRUE)>>
                ELSE <<E(id, "startWithoutCoin", TRUE)>>)
               \o (IF first = NoSocket THEN <<>>
                   ELSE <<E(first, "canWorkUpdated", TRUE)>>
                        \o (IF rule = "ban" THEN <<E(first, "canBan", TRUE)>>
                            ELSE IF rule = "pick" THEN <<E(first, "canPick", TRUE)>>
                            ELSE <<>>)),
               {})

\* Splatoon.startGame: seeds priorityTeam (the coin's pick, or the first-joined team)
SplatoonStartGame(lobby, flip) ==
    LET tn == lobby.teamNames
        idx == IF lobby.rules.coinFlip THEN flip + 1 ELSE 1
    IN  [lobby EXCEPT !.priorityTeam = IF idx \in 1..Len(tn) THEN tn[idx].name
                                       ELSE Undefined]

startGame(lobby, id, flip) ==
    IF lobby.family = "splatoon"
    THEN LET l1 == SplatoonStartGame(lobby, flip)
             teamEntries == l1.teamNames
             firstSocketId == IF Len(teamEntries) >= 1 THEN teamEntries[1].id ELSE NoSocket
             grant == ~l1.rules.coinFlip /\ firstSocketId # NoSocket
         IN  Result(l1,
                    (IF ~l1.rules.coinFlip THEN <<E(id, "startWithoutCoin", TRUE)>> ELSE <<>>)
                    \o <<E(id, "canWorkUpdated", FALSE), E(id, "canModeBan", FALSE),
                         E(id, "canModePick", FALSE), E(id, "canBan", FALSE),
                         E(id, "canPick", FALSE)>>
                    \o (IF grant THEN <<E(firstSocketId, "canWorkUpdated", TRUE)>> ELSE <<>>)
                    \o <<E(id, "modesUpdated", TRUE)>>,
                    IF grant THEN {firstSocketId} ELSE {})
    ELSE FPSStartGame(lobby, id, flip)

\* what the setTimeout callback of startGame emits
timerFireEmits(t) == <<E(t, "canModeBan", TRUE)>>

\* the setTimeout callback of startGame: a step of its own, 100 ms after startGame
timerFire(t) ==
    /\ t \in timers
    /\ timers' = timers \ {t}
    /\ caps' = ApplyEmits(caps, timerFireEmits(t))
    /\ UNCHANGED <<lobbies, rooms, sockLobbies, connected, obsView, startPick, mapPool, globalCoinFlip>>

(***************************************************************************)
(* lobby.teamName / admin.start                                            *)
(***************************************************************************)
lobbyTeamName(s, id, raw, flip) ==
    IF id \notin DOMAIN lobbies THEN Miss(<<>>)
    ELSE LET teamName == sanitizeInput(raw)
             l1 == [lobbies[id] EXCEPT !.teamNames = MapSet(@, s, teamName)]
             up == <<E(id, "teamNamesUpdated", TRUE)>>
         IN  IF ~l1.rules.admin /\ Len(l1.teamNames) = 2
             THEN LET r == startGame(l1, id, flip)
                  IN  Result(r.lobby, up \o r.emits, r.armed)
             ELSE Result(l1, up, {})

adminStart(id, flip) ==
    IF id \notin DOMAIN lobbies THEN Miss(<<>>)
    ELSE startGame(lobbies[id], id, flip)

(***************************************************************************)
(* disconnect / admin.delete                                               *)
(***************************************************************************)
\* the disconnect loop without the test of rules.admin: an emptied lobby is deleted
RECURSIVE ReapAdminToo(_, _, _)
ReapAdminToo(store, s, ids) ==
    IF ids = {} THEN store
    ELSE LET id == CHOOSE i \in ids : TRUE
             rest == ids \ {id}
         IN  IF id \notin DOMAIN store THEN ReapAdminToo(store, s, rest)
             ELSE LET l1 == [store[id] EXCEPT !.members = @ \ {s},
                                              !.teamNames = MapDelete(@, s)]
                  IN  IF l1.members = {}
                      THEN ReapAdminToo([i \in DOMAIN store \ {id} |-> store[i]], s, rest)
                      ELSE ReapAdminToo([store EXCEPT ![id] = l1], s, rest)

\* the lobbies of socket.data.lobbies still in the store, after the handler's loop
RECURSIVE Reap(_, _, _)
Reap(store, s, ids) ==
    IF ids = {} THEN store
    ELSE LET id == CHOOSE i \in ids : TRUE
             rest == ids \ {id}
         IN  IF id \notin DOMAIN store THEN Reap(store, s, rest)
             ELSE LET l1 == [store[id] EXCEPT !.members = @ \ {s},
                                              !.teamNames = MapDelete(@, s)]
                  IN  IF l1.members = {} /\ ~l1.rules.admin
                      THEN Reap([i \in DOMAIN store \ {id} |-> store[i]], s, rest)
                      ELSE Reap([store EXCEPT ![id] = l1], s, rest)

disconnect(s) ==
    /\ s \in connected
    /\ connected' = connected \ {s}
    /\ rooms' = [rooms EXCEPT ![s] = {}]
    /\ lobbies' = Reap(lobbies, s, sockLobbies[s])
    /\ UNCHANGED <<sockLobbies, caps, timers, obsView, startPick, mapPool, globalCoinFlip>>

\* what admin.delete emits
adminDeleteEmits(id) ==
    IF id \notin DOMAIN lobbies THEN <<>>
    ELSE <<E(id, "lobbyDeleted", TRUE), E(Everyone, "lobbiesUpdated", TRUE)>>

\* admin.delete without the eviction loop: the members stay in the room
adminDeleteNoEviction(id) ==
    IF id \notin DOMAIN lobbies THEN UNCHANGED vars
    ELSE /\ lobbies' = Remove(id)
         /\ UNCHANGED <<rooms, sockLobbies, connected, caps, timers, obsView, startPick, mapPool, globalCoinFlip>>

adminDelete(id) ==
    IF id \notin DOMAIN lobbies THEN UNCHANGED vars
    ELSE /\ rooms' = [s \in Sockets |->
                         IF s \in lobbies[id].members /\ s \in connected
                         THEN rooms[s] \ {id} ELSE rooms[s]]
         /\ sockLobbies' = [s \in Sockets |->
                         IF s \in lobbies[id].members /\ s \in connected
                         THEN sockLobbies[s] \ {id} ELSE sockLobbies[s]]
         /\ lobbies' = Remove(id)
         /\ UNCHANGED <<connected, caps, timers, obsView, startPick, mapPool, globalCoinFlip>>

(***************************************************************************)
(* lobby.startPick / lobby.pick / lobby.decider                            *)
(***************************************************************************)
\* lobby.startPick with the BO1 targets for every game type
lobbyStartPickOwnSide(s, id, teamName) ==
    IF id \notin DOMAIN lobbies THEN Miss(<<>>)
    ELSE LET otherSocketId == OtherSocketId(lobbies[id].teamNames, teamName)
         IN  Miss(<<E(s, "backend.startPick", TRUE),
                    E(otherSocketId, "canWorkUpdated", FALSE),
                    E(otherSocketId, "canPick", FALSE)>>)

lobbyStartPick(s, id, teamName) ==
    IF id \notin DOMAIN lobbies THEN Miss(<<>>)
    ELSE LET lobby == lobbies[id]
             otherSocketId == OtherSocketId(lobby.teamNames, teamName)
             targetSocket == IF lobby.rules.gameType = "bo1" THEN s ELSE otherSocketId
             otherSocket == IF lobby.rules.gameType = "bo1" THEN otherSocketId ELSE s
         IN  Miss(<<E(targetSocket, "backend.startPick", TRUE),
                        E(otherSocket, "canWorkUpdated", FALSE),
                        E(otherSocket, "canPick", FALSE)>>)

\* the map of rules.mapNames the knife decider falls on: the last one neither
\* picked nor banned, "" when there is none
NotPickedMap(lobby) ==
    LET used == {lobby.pickedMaps[i].map : i \in 1..Len(lobby.pickedMaps)}
                \cup {lobby.bannedMaps[i].map : i \in 1..Len(lobby.bannedMaps)}
        free == {i \in 1..Len(lobby.rules.mapNames) : lobby.rules.mapNames[i] \notin used}
    IN  IF free = {} THEN ""
        ELSE lobby.rules.mapNames[CHOOSE i \in free : \A j \in free : j <= i]

\* the knife decider branch without its own lobby.gameStep++
KnifeDeciderNoAdvance(lobby, id, otherSocketId) ==
    Result([lobby EXCEPT !.pickedMaps = Append(@, [map |-> NotPickedMap(lobby),
                                                   teamName |-> "", side |-> "DECIDER",
                                                   sideTeamName |-> ""])],
           <<E(otherSocketId, "canWorkUpdated", FALSE), E(id, "canWorkUpdated", FALSE),
             E(id, "pickedUpdated", TRUE), E(id, "gameStateUpdated", TRUE)>>,
           {})

\* the knife decider branch shared by lobby.pick and lobby.ban
KnifeDecider(lobby, id, otherSocketId) ==
    Result([lobby EXCEPT !.pickedMaps = Append(@, [map |-> NotPickedMap(lobby),
                                                   teamName |-> "", side |-> "DECIDER",
                                                   sideTeamName |-> ""]),
                         !.gameStep = @ + 1],
           <<E(otherSocketId, "canWorkUpdated", FALSE), E(id, "canWorkUpdated", FALSE),
             E(id, "pickedUpdated", TRUE), E(id, "gameStateUpdated", TRUE)>>,
           {})

\* lobby.pick without the Splatoon branch's round-complete emits
lobbyPickNoRoundEnd(s, id, map, teamName, side) ==
    IF id \notin DOMAIN lobbies THEN Miss(<<>>)
    ELSE LET lobby == lobbies[id]
         IN  Result([lobby EXCEPT !.pickedMaps =
                        Append(@, [map |-> map, teamName |-> teamName,
                                   roundNumber |-> lobby.rules.roundNumber]),
                                  !.gameStep = @ + 1],
                    <<E(OtherSocketId(lobby.teamNames, teamName), "endPick", TRUE),
                      E(id, "canWorkUpdated", FALSE), E(id, "pickedUpdated", TRUE)>>,
                    {})

lobbyPick(s, id, map, teamName, side) ==
    IF id \notin DOMAIN lobbies THEN Miss(<<>>)
    ELSE LET lobby == lobbies[id]
             fps == lobby.family = "fps"
             sideTeamName == teamName
             mapTeamName == IF fps /\ lobby.rules.gameType # "bo1"
                               /\ OtherIndex(lobby.teamNames, teamName) # 0
                            THEN OtherName(lobby.teamNames, teamName)
                            ELSE teamName
             l1 == IF fps
                   THEN [lobby EXCEPT !.pickedMaps =
                            Append(@, [map |-> map, teamName |-> mapTeamName,
                                       side |-> side, sideTeamName |-> sideTeamName])]
                   ELSE [lobby EXCEPT !.pickedMaps =
                            Append(@, [map |-> map, teamName |-> teamName,
                                       roundNumber |-> lobby.rules.roundNumber])]
             e1 == IF fps
                   THEN (IF lobby.rules.gameType # "bo1"
                         THEN <<E(id, "gameStateUpdated", TRUE)>> ELSE <<>>)
                   ELSE <<E(id, "canWorkUpdated", FALSE), E(id, "canBan", FALSE),
                          E(id, "canPick", FALSE), E(id, "canModeBan", FALSE),
                          E(id, "canModePick", FALSE), E(id, "canReportWinner", TRUE)>>
             l2 == [l1 EXCEPT !.gameStep = @ + 1]
             otherSocketId == OtherSocketId(lobby.teamNames, teamName)
             e2 == <<E(otherSocketId, "endPick", TRUE)>>
             rule == RuleAt(l2.rules.mapRulesList, l2.gameStep)
             r3 == IF l2.gameStep < 7 /\ fps
                   THEN IF rule = "pick"
                        THEN Result(l2, <<E(s, "canWorkUpdated", TRUE), E(s, "canPick", TRUE),
                                          E(id, "gameStateUpdated", TRUE)>>, {})
                        ELSE IF rule = "decider"
                        THEN IF l2.rules.knifeDecider
                             THEN LET k == KnifeDecider(l2, id, otherSocketId)
                                  IN  Result(k.lobby,
                                             <<E(s, "canWorkUpdated", TRUE)>> \o k.emits, {})
                             ELSE Result(l2, <<E(s, "canWorkUpdated", TRUE),
                                               E(s, "canWorkUpdated", FALSE),
                                               E(otherSocketId, "canWorkUpdated", TRUE),
                                               E(otherSocketId, "canPick", TRUE),
                                               E(id, "gameStateUpdated", TRUE)>>, {})
                        ELSE IF rule = "ban"
                        THEN Result(l2, <<E(s, "canWorkUpdated", TRUE), E(s, "canBan", TRUE),
                                          E(id, "gameStateUpdated", TRUE)>>, {})
                        ELSE Result(l2, <<E(s, "canWorkUpdated", TRUE)>>, {})
                   ELSE Result(l2, <<E(id, "canWorkUpdated", FALSE)>>, {})
         IN  Result(r3.lobby,
                               e1 \o e2 \o r3.emits \o <<E(id, "pickedUpdated", TRUE)>>, {})

lobbyDecider(id, map) ==
    IF id \notin DOMAIN lobbies THEN Miss(<<>>)
    ELSE Result([lobbies[id] EXCEPT !.deciderMap = map, !.gameStep = @ + 1],
                           <<E(id, "gameStateUpdated", TRUE),
                             E(id, "deciderUpdated", TRUE)>>, {})

(***************************************************************************)
(* lobby.ban                                                               *)
(***************************************************************************)
\* bannedMaps.filter(ban => ban.roundNumber === roundNumber)
\*           .filter(ban => ban.teamName === team).length
RoundBans(lobby, team) ==
    Cardinality({i \in 1..Len(lobby.bannedMaps) :
                    /\ lobby.bannedMaps[i].roundNumber = lobby.rules.roundNumber
                    /\ lobby.bannedMaps[i].teamName = team})

\* hand over: the sender's controls off, the next actor's on
HandOver(s, next, cap, id) ==
    <<E(s, "canWorkUpdated", FALSE), E(s, "canBan", FALSE),
      E(next, "canWorkUpdated", TRUE), E(next, cap, TRUE),
      E(id, "gameStateUpdated", TRUE)>>

\* more bans for the sender
Again(s, id) ==
    <<E(s, "canWorkUpdated", TRUE), E(s, "canBan", TRUE), E(id, "gameStateUpdated", TRUE)>>

\* the first-round branch handing the pick to the team that banned last
FirstRoundBanLastPicks(lobby, s, id, teamName) ==
    LET isPriorityTeam == teamName = lobby.priorityTeam
        priorityTeamBans == RoundBans(lobby, lobby.priorityTeam)
    IN  IF isPriorityTeam /\ priorityTeamBans < 2 THEN Again(s, id)
        ELSE IF ~isPriorityTeam /\ priorityTeamBans >= 2
        THEN IF RoundBans(lobby, teamName) < 3 THEN Again(s, id)
             ELSE HandOver(s, s, "canPick", id)
        ELSE HandOver(s, OtherSocketId(lobby.teamNames, lobby.priorityTeam), "canBan", id)

\* first round: the priority team bans 2, the other team bans 3, the priority team picks
FirstRoundBan(lobby, s, id, teamName) ==
    LET isPriorityTeam == teamName = lobby.priorityTeam
        priorityTeamBans == RoundBans(lobby, lobby.priorityTeam)
        tn == lobby.teamNames
    IN  IF isPriorityTeam /\ priorityTeamBans < 2 THEN Again(s, id)
        ELSE IF ~isPriorityTeam /\ priorityTeamBans >= 2
        THEN IF RoundBans(lobby, teamName) < 3 THEN Again(s, id)
             ELSE HandOver(s, SocketOfTeam(tn, lobby.priorityTeam), "canPick", id)
        ELSE IF ~isPriorityTeam /\ priorityTeamBans < 2
        THEN <<E(s, "canWorkUpdated", FALSE), E(s, "canBan", FALSE),
               E(id, "gameStateUpdated", TRUE)>>
        ELSE HandOver(s, OtherSocketId(tn, lobby.priorityTeam), "canBan", id)

\* the 2-mode later-round branch with the winner's bans counted to 3
NextRoundBan2WinnerThree(lobby, s, id, teamName) ==
    LET isWinningTeam == teamName = lobby.rules.lastWinner
        tn == lobby.teamNames
    IN  IF isWinningTeam
        THEN IF RoundBans(lobby, teamName) < 3 THEN Again(s, id)
             ELSE HandOver(s, OtherSocketId(tn, teamName), "canBan", id)
        ELSE IF RoundBans(lobby, teamName) < 3 THEN Again(s, id)
             ELSE HandOver(s, SocketOfTeam(tn, lobby.rules.lastWinner), "canPick", id)

\* later rounds, 2 modes: the winner bans 2, the loser bans 3, the winner picks
NextRoundBan2(lobby, s, id, teamName) ==
    LET isWinningTeam == teamName = lobby.rules.lastWinner
        tn == lobby.teamNames
    IN  IF isWinningTeam
        THEN IF RoundBans(lobby, teamName) < 2 THEN Again(s, id)
             ELSE HandOver(s, OtherSocketId(tn, teamName), "canBan", id)
        ELSE IF RoundBans(lobby, teamName) < 3 THEN Again(s, id)
             ELSE HandOver(s, SocketOfTeam(tn, lobby.rules.lastWinner), "canPick", id)

\* the 4-mode later-round branch with the winner's bans counted to 2
NextRoundBan4WinnerTwo(lobby, s, id, teamName) ==
    LET isWinningTeam == teamName = lobby.rules.lastWinner
    IN  IF isWinningTeam
        THEN IF RoundBans(lobby, teamName) < 2 THEN Again(s, id)
             ELSE HandOver(s, OtherSocketId(lobby.teamNames, teamName), "canPick", id)
        ELSE <<>>

\* later rounds, 4 modes: the winner bans 3, the loser picks
NextRoundBan4(lobby, s, id, teamName) ==
    LET isWinningTeam == teamName = lobby.rules.lastWinner
    IN  IF isWinningTeam
        THEN IF RoundBans(lobby, teamName) < 3 THEN Again(s, id)
             ELSE HandOver(s, OtherSocketId(lobby.teamNames, teamName), "canPick", id)
        ELSE <<>>

SplatoonBan(lobby, s, id, teamName) ==
    IF lobby.rules.roundNumber = 1 THEN FirstRoundBan(lobby, s, id, teamName)
    ELSE IF lobby.rules.modesSize = 2 THEN NextRoundBan2(lobby, s, id, teamName)
    ELSE NextRoundBan4(lobby, s, id, teamName)

\* the FPS branch of lobby.ban granting the next capability back to the sender
FPSBanSameTeam(lobby, s, id, teamName) ==
    IF lobby.gameStep < 7
    THEN Result(lobby, <<E(s, "canWorkUpdated", TRUE), E(s, "canBan", TRUE)>>, {})
    ELSE Result(lobby, <<E(id, "canWorkUpdated", FALSE)>>, {})

\* the FPS branch of lobby.ban: the other team acts next
FPSBan(lobby, s, id, teamName) ==
    LET otherSocketId == OtherSocketId(lobby.teamNames, teamName)
        rule == RuleAt(lobby.rules.mapRulesList, lobby.gameStep)
        on == <<E(otherSocketId, "canWorkUpdated", TRUE)>>
    IN  IF lobby.gameStep < 7
        THEN IF rule = "pick"
             THEN Result(lobby, on \o <<E(otherSocketId, "canPick", TRUE),
                                        E(id, "gameStateUpdated", TRUE)>>, {})
             ELSE IF rule = "decider"
             THEN IF lobby.rules.knifeDecider
                  THEN LET k == KnifeDecider(lobby, id, otherSocketId)
                       IN  Result(k.lobby, on \o k.emits, {})
                  ELSE Result(lobby, on \o <<E(s, "canWorkUpdated", FALSE),
                                             E(otherSocketId, "canWorkUpdated", TRUE),
                                             E(otherSocketId, "canPick", TRUE),
                                             E(id, "gameStateUpdated", TRUE)>>, {})
             ELSE IF rule = "ban"
             THEN Result(lobby, on \o <<E(otherSocketId, "canBan", TRUE),
                                        E(id, "gameStateUpdated", TRUE)>>, {})
             ELSE Result(lobby, on, {})
        ELSE Result(lobby, <<E(id, "canWorkUpdated", FALSE)>>, {})

lobbyBan(s, id, map, teamName) ==
    IF id \notin DOMAIN lobbies THEN Miss(<<>>)
    ELSE LET lobby == lobbies[id]
             splatoon == lobby.family = "splatoon"
             l1 == IF splatoon
                   THEN [lobby EXCEPT !.bannedMaps =
                            Append(@, [map |-> map, teamName |-> teamName,
                                       roundNumber |-> lobby.rules.roundNumber])]
                   ELSE [lobby EXCEPT !.bannedMaps =
                            Append(@, [map |-> map, teamName |-> teamName])]
             l2 == [l1 EXCEPT !.gameStep = @ + 1]
             e1 == (IF splatoon THEN <<E(id, "gameStateUpdated", TRUE)>> ELSE <<>>)
                   \o <<E(id, "bannedUpdated", TRUE),
                        E(s, "canWorkUpdated", FALSE), E(s, "canBan", FALSE)>>
             r == IF splatoon THEN Result(l2, SplatoonBan(l2, s, id, teamName), {})
                  ELSE FPSBan(l2, s, id, teamName)
         IN  Result(r.lobby, e1 \o r.emits, {})

(***************************************************************************)
(* lobby.modeBan / lobby.modePick                                          *)
(***************************************************************************)
\* Splatoon.startMapSelectionPhase: the priority team opens the map bans
startMapSelectionPhase(lobby, id) ==
    LET first == SocketOfTeam(lobby.teamNames, lobby.priorityTeam)
    IN  <<E(first, "canWorkUpdated", TRUE), E(first, "canBan", TRUE),
          E(id, "gameStateUpdated", TRUE)>>

\* lobby.modeBan handing the next mode step back to its sender
lobbyModeBanKeepsTurn(s, id, mode, teamName) ==
    IF id \notin DOMAIN lobbies \/ lobbies[id].family # "splatoon" THEN Miss(<<>>)
    ELSE IF lobbies[id].rules.modesSize = 2 THEN Miss(<<>>)
    ELSE Result([lobbies[id] EXCEPT
                   !.bannedModes = Append(@, [mode |-> mode, teamName |-> teamName]),
                   !.rules.activeModes = SelectSeq(@, LAMBDA m : m # mode),
                   !.gameStep = @ + 1],
                <<E(s, "canWorkUpdated", TRUE), E(s, "canModePick", TRUE),
                  E(s, "canModeBan", FALSE), E(id, "modesUpdated", TRUE)>>, {})

lobbyModeBan(s, id, mode, teamName) ==
    IF id \notin DOMAIN lobbies \/ lobbies[id].family # "splatoon" THEN Miss(<<>>)
    ELSE IF lobbies[id].rules.modesSize = 2 THEN Miss(<<>>)
    ELSE LET lobby == lobbies[id]
             l1 == [lobby EXCEPT
                      !.bannedModes = Append(@, [mode |-> mode, teamName |-> teamName]),
                      !.rules.activeModes = SelectSeq(@, LAMBDA m : m # mode),
                      !.gameStep = @ + 1]
             otherSocketId == OtherSocketId(lobby.teamNames, teamName)
             off == <<E(id, "gameStateUpdated", TRUE),
                      E(s, "canWorkUpdated", FALSE), E(s, "canModeBan", FALSE),
                      E(s, "canModePick", FALSE)>>
             pickBy(x) == <<E(x, "canWorkUpdated", TRUE), E(x, "canModePick", TRUE),
                            E(x, "canModeBan", FALSE), E(id, "gameStateUpdated", TRUE)>>
             next ==
                 IF l1.rules.roundNumber > 1
                 THEN IF teamName = l1.rules.lastWinner THEN pickBy(otherSocketId) ELSE <<>>
                 ELSE IF Len(l1.bannedModes) = 2
                 THEN IF l1.bannedModes[1].teamName = teamName THEN pickBy(s)
                      ELSE <<E(s, "canWorkUpdated", FALSE), E(s, "canModeBan", FALSE)>>
                           \o pickBy(otherSocketId)
                 ELSE <<E(otherSocketId, "canWorkUpdated", TRUE),
                        E(otherSocketId, "canModeBan", TRUE),
                        E(otherSocketId, "canModePick", FALSE),
                        E(s, "canWorkUpdated", FALSE), E(s, "canModeBan", FALSE),
                        E(id, "gameStateUpdated", TRUE)>>
         IN  Result(l1, off \o next \o <<E(id, "modesUpdated", TRUE)>>, {})

lobbyModePick(s, id, mode, teamName) ==
    IF id \notin DOMAIN lobbies \/ lobbies[id].family # "splatoon" THEN Miss(<<>>)
    ELSE LET l1 == [lobbies[id] EXCEPT
                      !.pickedMode = [mode |-> mode, teamName |-> teamName],
                      !.gameStep = @ + 1,
                      !.rules.mapNames = splatoonMapPool(mode)]
         IN  Result(l1,
                <<E(id, "gameStateUpdated", TRUE), E(id, "availableMaps", TRUE),
                  E(id, "canWorkUpdated", FALSE), E(id, "canModeBan", FALSE),
                  E(id, "canModePick", FALSE), E(id, "canBan", FALSE),
                  E(id, "canPick", FALSE)>>
                \o startMapSelectionPhase(l1, id)
                \o <<E(id, "modePicked", TRUE)>>, {})

(***************************************************************************)
(* winner reporting                                                        *)
(***************************************************************************)
\* Splatoon.startNextRound: the next round's number, priority team (the last
\* winner) and modes; the priority team is granted the round's first action
startNextRound(lobby, id) ==
    LET winner == IF lobby.rules.lastWinner = Absent THEN Undefined
                  ELSE lobby.rules.lastWinner
        l1 == [lobby EXCEPT
                 !.rules.roundNumber = @ + 1,
                 !.rules.activeModes = IF lobby.rules.modesSize = 2
                                       THEN <<"tower", "zones">> ELSE gameModes,
                 !.bannedModes = <<>>,
                 !.gameStep = 0,
                 !.priorityTeam = winner]
        first == SocketOfTeam(lobby.teamNames, winner)
    IN  Result(l1,
               <<E(id, "canWorkUpdated", FALSE), E(id, "canModeBan", FALSE),
                 E(id, "canModePick", FALSE), E(id, "canBan", FALSE),
                 E(id, "canPick", FALSE), E(id, "canReportWinner", FALSE),
                 E(first, "canWorkUpdated", TRUE),
                 E(first, IF lobby.rules.modesSize = 2 THEN "canModePick"
                          ELSE "canModeBan", TRUE)>>,
               {})

\* what roundHistory.push appends
HistoryEntry(lobby) ==
    [roundNumber |-> lobby.rules.roundNumber,
     pickedMaps |-> lobby.pickedMaps,
     pickedMode |-> lobby.pickedMode]

lobbyReportWinner(id) ==
    IF id \notin DOMAIN lobbies \/ lobbies[id].family # "splatoon" THEN Miss(<<>>)
    ELSE LET r == startNextRound(lobbies[id], id)
         IN  Result(r.lobby, r.emits \o <<E(id, "modesUpdated", TRUE)>>, {})

lobbyProposeWinner(id) ==
    Miss(<<E(id, "winnerProposed", TRUE)>>)

\* lobby.confirmWinner with the rejection's canReportWinner sent to the room
lobbyConfirmWinnerRegrantAll(id, winnerTeam, confirmed, confirmingTeam) ==
    IF id \notin DOMAIN lobbies \/ lobbies[id].family # "splatoon" THEN Miss(<<>>)
    ELSE IF confirmed
    THEN LET l1 == [lobbies[id] EXCEPT
                      !.roundHistory = Append(@, HistoryEntry(lobbies[id])),
                      !.rules.lastWinner = winnerTeam]
             r == startNextRound(l1, id)
         IN  Result(r.lobby,
                    r.emits \o <<E(id, "winnerConfirmed", TRUE),
                                 E(id, "modesUpdated", TRUE)>>, {})
    ELSE Miss(<<E(id, "canReportWinner", TRUE),
                E(id, "winnerRejected", TRUE),
                E(id, "gameStateUpdated", TRUE)>>)

lobbyConfirmWinner(id, winnerTeam, confirmed, confirmingTeam) ==
    IF id \notin DOMAIN lobbies \/ lobbies[id].family # "splatoon" THEN Miss(<<>>)
    ELSE IF confirmed
    THEN LET l1 == [lobbies[id] EXCEPT
                      !.roundHistory = Append(@, HistoryEntry(lobbies[id])),
                      !.rules.lastWinner = winnerTeam]
             r == startNextRound(l1, id)
         IN  Result(r.lobby,
                               r.emits \o <<E(id, "winnerConfirmed", TRUE),
                                            E(id, "modesUpdated", TRUE)>>, {})
    ELSE Miss(<<E(SocketOfTeam(lobbies[id].teamNames, confirmingTeam),
                      "canReportWinner", TRUE),
                    E(id, "winnerRejected", TRUE),
                    E(id, "gameStateUpdated", TRUE)>>)

getMaxRounds(gameType) == IF gameType = "bo3" THEN 3 ELSE 5

\* the name of the i-th team, undefined when there is none
NameAt(tn, i) == IF i \in 1..Len(tn) THEN tn[i].name ELSE Undefined

handleGameEnd(lobby, id) ==
    LET score(team) == Cardinality({i \in 1..Len(lobby.pickedMaps) :
                                       lobby.pickedMaps[i].teamName = team})
        winnerTeam == IF score(NameAt(lobby.teamNames, 1)) > score(NameAt(lobby.teamNames, 2))
                      THEN NameAt(lobby.teamNames, 1) ELSE NameAt(lobby.teamNames, 2)
        l1 == IF lobby.rules.lastWinner # Absent
              THEN [lobby EXCEPT !.rules.lastWinner = winnerTeam] ELSE lobby
    IN  startNextRound(l1, id)

winnerReported(id, winnerTeam) ==
    IF id \notin DOMAIN lobbies THEN Miss(<<>>)
    ELSE LET lobby == lobbies[id]
             l1 == IF lobby.rules.lastWinner # Absent
                   THEN [lobby EXCEPT !.rules.lastWinner = winnerTeam] ELSE lobby
         IN  IF Len(l1.pickedMaps) >= getMaxRounds(l1.rules.gameType)
             THEN handleGameEnd(l1, id)
             ELSE startNextRound(l1, id)

winnerConfirmed(id, confirmed) ==
    IF id \notin DOMAIN lobbies THEN Miss(<<>>)
    ELSE IF confirmed
    THEN LET l1 == [lobbies[id] EXCEPT !.roundHistory = Append(@, HistoryEntry(lobbies[id]))]
             r == startNextRound(l1, id)
         IN  Result(r.lobby, r.emits \o <<E(id, "modesUpdated", TRUE)>>, {})
    ELSE LET lobby == lobbies[id]
             l1 == IF lobby.rules.lastWinner # Absent
                   THEN [lobby EXCEPT !.rules.lastWinner = Undefined] ELSE lobby
         IN  Result(l1,
                <<E(id, "canWorkUpdated", TRUE), E(id, "canModeBan", TRUE),
                  E(id, "canModePick", TRUE), E(id, "canBan", TRUE),
                  E(id, "canPick", TRUE), E(id, "gameStateUpdated", TRUE)>>, {})

(***************************************************************************)
(* Spec: the life of a lobby.  Three connections create lobbies, join,     *)
(* name their teams, start the game and leave.                             *)
(***************************************************************************)
\* createFPSLobby payloads: gameType, knifeDecider, mapPoolSize, coinFlip, admin
FPSConfigs ==
    { <<"bo1", FALSE, 7, FALSE, FALSE>>,
      <<"bo3", TRUE, 7, TRUE, TRUE>>,
      <<"bo3", FALSE, 4, FALSE, FALSE>> }
\* createSplatoonLobby payloads: modesSize, coinFlip, admin
SplatoonConfigs == { <<4, FALSE, FALSE>> }
Roles == {"member", "observer", "test"}
\* s1 and s2 are the captains; s3 is the connection that comes as anything
RolesOf(s) == IF s = "s3" THEN Roles ELSE {"member"}
\* the name each connection types
RawNameOf(s) == IF s = "s1" THEN "A" ELSE IF s = "s2" THEN "B" ELSE " A "

CreateFPSLobby ==
    \E s \in connected, id \in LobbyIds, c \in FPSConfigs :
        Do(id, createFPSLobby(s, id, c[1], c[2], c[3], c[4], c[5]))

CreateSplatoonLobby ==
    \E s \in connected, id \in LobbyIds, c \in SplatoonConfigs :
        Do(id, createSplatoonLobby(s, id, c[1], c[2], c[3]))

JoinLobby ==
    \E s \in connected, id \in LobbyIds : \E role \in RolesOf(s) : joinLobby(s, id, role)

LobbyTeamName ==
    \E s \in connected, id \in LobbyIds, flip \in Flips :
        Do(id, lobbyTeamName(s, id, RawNameOf(s), flip))

AdminStart ==
    \E s \in connected, id \in LobbyIds, flip \in Flips : Do(id, adminStart(id, flip))

TimerFire == \E t \in timers : timerFire(t)

Disconnect == \E s \in connected : disconnect(s)

Next ==
    \/ CreateFPSLobby
    \/ CreateSplatoonLobby
    \/ JoinLobby
    \/ LobbyTeamName
    \/ AdminStart
    \/ TimerFire
    \/ Disconnect

Spec == Init /\ [][Next]_vars

(***************************************************************************)
(* SpecFPS: the veto of an FPS lobby.  s1 and s2 are the captains "A" and  *)
(* "B", s3 watches; every connection may send every ceremony event, with   *)
(* any team name and any map, at any time.  The captains join before they  *)
(* name their teams.                                                       *)
(***************************************************************************)
TheLobby == "L1"
\* gameType, knifeDecider, mapPoolSize, coinFlip, admin
VetoConfigs ==
    { <<"bo1", FALSE, 7, FALSE, FALSE>>,
      <<"bo3", TRUE, 7, FALSE, FALSE>>,
      <<"bo1", FALSE, 4, FALSE, FALSE>> }
\* the maps a lobby.ban names: one of the pool, one foreign to it
BanMaps == {"m1", ForeignMap}
\* the map a lobby.pick names
PickMaps == {"m2"}
Sides == {"ct"}

HasLobby == TheLobby \in DOMAIN lobbies
Entries == Len(lobbies[TheLobby].bannedMaps) + Len(lobbies[TheLobby].pickedMaps)

CreateVeto ==
    \E s \in Sockets, c \in VetoConfigs :
        Do(TheLobby, createFPSLobby(s, TheLobby, c[1], c[2], c[3], c[4], c[5]))

JoinVeto ==
    \E s \in Sockets :
        HasLobby /\ joinLobby(s, TheLobby, IF s = "s3" THEN "observer" ELSE "member")

NameVeto ==
    \E s \in {"s1", "s2"}, flip \in Flips :
        /\ HasLobby /\ s \in lobbies[TheLobby].members
        /\ Do(TheLobby, lobbyTeamName(s, TheLobby, RawNameOf(s), flip))

StartPickVeto ==
    \E s \in Sockets, teamName \in Names :
        /\ HasLobby
        /\ Do(TheLobby, lobbyStartPick(s, TheLobby, teamName))

PickVeto ==
    \E s \in Sockets, teamName \in Names, map \in PickMaps, side \in Sides :
        /\ HasLobby /\ Entries < MaxEntries
        /\ Do(TheLobby, lobbyPick(s, TheLobby, map, teamName, side))

DeciderVeto ==
    \E s \in Sockets :
        /\ HasLobby /\ lobbies[TheLobby].gameStep < MaxStep
        /\ Do(TheLobby, lobbyDecider(TheLobby, "m3"))

BanVeto ==
    \E s \in Sockets, teamName \in Names, map \in BanMaps :
        /\ HasLobby /\ Entries < MaxEntries
        /\ Do(TheLobby, lobbyBan(s, TheLobby, map, teamName))

NextFPS ==
    \/ CreateVeto
    \/ JoinVeto
    \/ NameVeto
    \/ StartPickVeto
    \/ PickVeto
    \/ DeciderVeto
    \/ BanVeto

SpecFPS == Init /\ [][NextFPS]_vars

(***************************************************************************)
(* SpecSplatoon: the rounds of a Splatoon lobby.  s1 and s2 are the        *)
(* captains "A" and "B", s3 watches.  A captain's client sends an event    *)
(* under its own team name, and only while the control for it is on: the   *)
(* last value it received for the capability is true.                      *)
(***************************************************************************)
\* modesSize, coinFlip, admin
RoundConfigs == { <<4, FALSE, FALSE>>, <<2, FALSE, FALSE>> }
Captains == {"s1", "s2"}
\* the first mode still active, the one a captain bans or picks
FirstMode == lobbies[TheLobby].rules.activeModes[1]
\* entries of the current round
RoundEntries ==
    LET l == lobbies[TheLobby]
        now(seq) == Cardinality({i \in 1..Len(seq) :
                                    seq[i].roundNumber = l.rules.roundNumber})
    IN  now(l.bannedMaps) + now(l.pickedMaps)
\* the first map of the round's pool not yet banned or picked in this round
FreeMaps ==
    LET l == lobbies[TheLobby]
        used(seq) == {seq[i].map : i \in {j \in 1..Len(seq) :
                                             seq[j].roundNumber = l.rules.roundNumber}}
    IN  {i \in 1..Len(l.rules.mapNames) :
            l.rules.mapNames[i] \notin used(l.bannedMaps) \cup used(l.pickedMaps)}
FirstFreeMap ==
    lobbies[TheLobby].rules.mapNames[CHOOSE i \in FreeMaps : \A j \in FreeMaps : i <= j]
\* the control for capability cap is on at captain s
Offers(s, cap) == HasLobby /\ s \in connected /\ caps[s][cap]

CreateRounds ==
    \E s \in Sockets, c \in RoundConfigs :
        Do(TheLobby, createSplatoonLobby(s, TheLobby, c[1], c[2], c[3]))

JoinRounds ==
    \E s \in Sockets :
        HasLobby /\ joinLobby(s, TheLobby, IF s = "s3" THEN "observer" ELSE "member")

NameRounds ==
    \E s \in Captains, flip \in Flips :
        /\ HasLobby /\ s \in lobbies[TheLobby].members
        /\ Do(TheLobby, lobbyTeamName(s, TheLobby, RawNameOf(s), flip))

TimerRounds == \E t \in timers : timerFire(t)

ModeBanRounds ==
    \E s \in Captains :
        /\ Offers(s, "canModeBan")
        /\ Len(lobbies[TheLobby].bannedModes) < MaxModeBans
        /\ lobbies[TheLobby].rules.activeModes # <<>>
        /\ Do(TheLobby, lobbyModeBan(s, TheLobby, FirstMode, RawNameOf(s)))

ModePickRounds ==
    \E s \in Captains :
        /\ Offers(s, "canModePick")
        /\ lobbies[TheLobby].gameStep < MaxStep
        /\ lobbies[TheLobby].rules.activeModes # <<>>
        /\ Do(TheLobby, lobbyModePick(s, TheLobby, FirstMode, RawNameOf(s)))

BanRounds ==
    \E s \in Captains :
        /\ Offers(s, "canBan")
        /\ RoundEntries < MaxRoundEntries /\ FreeMaps # {}
        /\ Do(TheLobby, lobbyBan(s, TheLobby, FirstFreeMap, RawNameOf(s)))

PickRounds ==
    \E s \in Captains :
        /\ Offers(s, "canPick")
        /\ RoundEntries < MaxRoundEntries /\ FreeMaps # {}
        /\ Do(TheLobby, lobbyPick(s, TheLobby, FirstFreeMap, RawNameOf(s), ""))

ReportWinner ==
    \E s \in Captains :
        /\ Offers(s, "canReportWinner")
        /\ lobbies[TheLobby].rules.roundNumber < MaxRound
        /\ Do(TheLobby, lobbyReportWinner(TheLobby))

ProposeWinner ==
    \E s \in Captains :
        /\ Offers(s, "canReportWinner")
        /\ Do(TheLobby, lobbyProposeWinner(TheLobby))

ConfirmWinner ==
    \E s \in Captains, winnerTeam \in Names, confirmed \in BOOLEAN :
        /\ Offers(s, "canReportWinner")
        /\ lobbies[TheLobby].rules.roundNumber < MaxRound
        /\ Do(TheLobby, lobbyConfirmWinner(TheLobby, winnerTeam, confirmed, RawNameOf(s)))

WinnerReported ==
    \E s \in Captains, winnerTeam \in Names :
        /\ Offers(s, "canReportWinner")
        /\ lobbies[TheLobby].rules.roundNumber < MaxRound
        /\ Do(TheLobby, winnerReported(TheLobby, winnerTeam))

WinnerConfirmed ==
    \E s \in Captains, confirmed \in BOOLEAN :
        /\ Offers(s, "canReportWinner")
        /\ confirmed => lobbies[TheLobby].rules.roundNumber < MaxRound
        /\ Do(TheLobby, winnerConfirmed(TheLobby, confirmed))

NextSplatoon ==
    \/ CreateRounds
    \/ JoinRounds
    \/ NameRounds
    \/ TimerRounds
    \/ ModeBanRounds
    \/ ModePickRounds
    \/ BanRounds
    \/ PickRounds
    \/ ReportWinner
    \/ ProposeWinner
    \/ ConfirmWinner
    \/ WinnerReported
    \/ WinnerConfirmed

SpecSplatoon == Init /\ [][NextSplatoon]_vars

(***************************************************************************)
(* Properties.                                                             *)
(***************************************************************************)
\* the capabilities of c2 that c1 did not have
Granted(c1, c2) == {<<s, c>> \in Sockets \X CapNames : c2[s][c] /\ ~c1[s][c]}
\* connection s is no member, has no team name, or does not hold capability cap
Unauthorized(s, cap) ==
    \/ s \notin lobbies[TheLobby].members
    \/ ~HasTeam(lobbies[TheLobby].teamNames, s)
    \/ ~caps[s][cap]
\* the maps named in pickedMaps and bannedMaps, in order
UsedMaps(lobby) ==
    [i \in 1..Len(lobby.pickedMaps) |-> lobby.pickedMaps[i].map]
    \o [i \in 1..Len(lobby.bannedMaps) |-> lobby.bannedMaps[i].map]
\* the connections of lobby id (members and observers) whose capability cap is on
Holders(id, cap) ==
    {s \in lobbies[id].members \cup lobbies[id].observers : caps[s][cap]}

\* C1: every lobby has at most 2 members and at most 2 teamNames entries.
MembersAndTeamsBounded ==
    \A id \in DOMAIN lobbies :
        /\ Cardinality(lobbies[id].members) <= 2
        /\ Len(lobbies[id].teamNames) <= 2

\* C2: a lobby.ban from a connection that is no member, has no team name or does
\* not hold canBan changes neither the lobby nor the capabilities, and emits nothing.
UnauthorizedBanDropped ==
    [][\A s \in Sockets, teamName \in Names, map \in BanMaps :
          (/\ HasLobby
           /\ Unauthorized(s, "canBan")
           /\ Do(TheLobby, lobbyBan(s, TheLobby, map, teamName)))
          => /\ UNCHANGED <<lobbies, caps>>
             /\ lobbyBan(s, TheLobby, map, teamName).emits = <<>>]_vars

\* C3: a lobby.ban whose teamName is not the name bound to the sender in
\* teamNames changes no lobby state.
ImpersonatedBanDropped ==
    [][\A s \in Sockets, teamName \in Names, map \in BanMaps :
          (/\ HasLobby
           /\ HasTeam(lobbies[TheLobby].teamNames, s)
           /\ TeamOf(lobbies[TheLobby].teamNames, s) # teamName
           /\ Do(TheLobby, lobbyBan(s, TheLobby, map, teamName)))
          => UNCHANGED lobbies]_vars

\* C4: in an FPS lobby the maps of pickedMaps and bannedMaps together hold no
\* duplicate and all belong to rules.mapNames.
MapsUniqueAndInPool ==
    \A id \in DOMAIN lobbies :
        lobbies[id].family = "fps" =>
            LET used == UsedMaps(lobbies[id])
            IN  /\ \A i, j \in 1..Len(used) : used[i] = used[j] => i = j
                /\ Range(used) \subseteq Range(lobbies[id].rules.mapNames)

\* C5: at most one connection of a lobby holds canWorkUpdated = true.
OneWorker ==
    \A id \in DOMAIN lobbies : Cardinality(Holders(id, "canWorkUpdated")) <= 1

\* C6: each of canBan, canPick, canModeBan, canModePick is on at no more than one
\* connection of a lobby, and a connection whose canWorkUpdated is on has one of
\* them on.
CapabilitiesExclusive ==
    \A id \in DOMAIN lobbies :
        /\ \A cap \in SubCaps : Cardinality(Holders(id, cap)) <= 1
        /\ \A s \in Holders(id, "canWorkUpdated") : \E cap \in SubCaps : caps[s][cap]

\* C7: an FPS lobby with mapPoolSize 7 whose gameStep reached 7 has 7 entries
\* in pickedMaps and bannedMaps together.
TerminatedWithSevenEntries ==
    \A id \in DOMAIN lobbies :
        (/\ lobbies[id].family = "fps"
         /\ lobbies[id].rules.mapPoolSize = 7
         /\ lobbies[id].gameStep >= 7)
        => Len(lobbies[id].pickedMaps) + Len(lobbies[id].bannedMaps) = 7

\* C8: in an FPS lobby gameStep = (7 - mapPoolSize) + |bannedMaps| + |pickedMaps|.
GameStepCountsEntries ==
    \A id \in DOMAIN lobbies :
        lobbies[id].family = "fps" =>
            lobbies[id].gameStep = (7 - lobbies[id].rules.mapPoolSize)
                                   + Len(lobbies[id].bannedMaps)
                                   + Len(lobbies[id].pickedMaps)

\* C9: a step that leaves a lobby without admin mode with fewer than 2 teamNames
\* entries neither raises its gameStep nor turns a capability on.
NoProgressBeforeTwoTeams ==
    [][(/\ HasLobby /\ TheLobby \in DOMAIN lobbies'
        /\ ~lobbies'[TheLobby].rules.admin
        /\ Len(lobbies'[TheLobby].teamNames) < 2)
       => /\ lobbies'[TheLobby].gameStep <= lobbies[TheLobby].gameStep
          /\ Granted(caps, caps') = {}]_vars

\* C10: in a Splatoon round after the first, priorityTeam is a team recorded as
\* the last winner, and rules.lastWinner, the team the ban logic treats as the
\* first actor, is that team.
PriorityIsLastWinner ==
    \A id \in DOMAIN lobbies :
        (lobbies[id].family = "splatoon" /\ lobbies[id].rules.roundNumber > 1)
        => /\ lobbies[id].priorityTeam \in Names
           /\ lobbies[id].rules.lastWinner = lobbies[id].priorityTeam

\* the createFPSLobby payload c passes the rule validation
ValidConfig(c) == ~(c[1] \in {"bo3", "bo5"} /\ c[3] # 7)

\* C11: createFPSLobby or createSplatoonLobby with an id already in the store
\* writes no lobby, and a request that passes the rule validation emits nothing.
CreateIdempotent ==
    \A id \in DOMAIN lobbies, s \in Sockets :
        /\ \A c \in FPSConfigs :
              LET r == createFPSLobby(s, id, c[1], c[2], c[3], c[4], c[5])
              IN  ~r.hit /\ (ValidConfig(c) => r.emits = <<>>)
        /\ \A c \in SplatoonConfigs :
              createSplatoonLobby(s, id, c[1], c[2], c[3]) = Miss(<<>>)

\* C11 witness: a lobby that already has members and a team name, in which the
\* game has started, is the target of the replayed request
CreateReplayed ==
    /\ HasLobby
    /\ lobbies[TheLobby].members # {}
    /\ Len(lobbies[TheLobby].teamNames) = 2
    /\ \E s \in Sockets : caps[s]["canWorkUpdated"]

\* C12: createFPSLobby with gameType bo3 or bo5 and mapPoolSize other than 7
\* writes no lobby and emits lobbyCreationError, once, to the requester; so a
\* bo3 or bo5 lobby of the store has mapPoolSize 7 and was created at gameStep 0.
ConfigErrorRejected ==
    /\ \A s \in Sockets, id \in LobbyIds, c \in FPSConfigs :
          ~ValidConfig(c) =>
              createFPSLobby(s, id, c[1], c[2], c[3], c[4], c[5])
                  = Miss(<<E(s, "lobbyCreationError", TRUE)>>)
    /\ \A id \in DOMAIN lobbies :
          (lobbies[id].family = "fps" /\ lobbies[id].rules.gameType \in {"bo3", "bo5"})
          => /\ lobbies[id].rules.mapPoolSize = 7
             /\ lobbies[id].gameStep = 0

\* C12 witness: a bo3 lobby is in the store and has a member
Bo3LobbyStored ==
    /\ HasLobby
    /\ lobbies[TheLobby].rules.gameType = "bo3"
    /\ lobbies[TheLobby].family = "fps"
    /\ lobbies[TheLobby].members # {}

(***************************************************************************)
(* joinObsView / admin.setObsLobby, and SpecObs: two lobbies and an OBS    *)
(* view page that the admin points at one of them, then at the other.      *)
(***************************************************************************)
ObsRoom == "obs_views"

joinObsView(s) ==
    /\ rooms' = [rooms EXCEPT ![s] = @ \cup {ObsRoom}]
    /\ UNCHANGED <<lobbies, sockLobbies, connected, caps, timers, obsView, startPick, mapPool, globalCoinFlip>>

\* what admin.setObsLobby emits, with the payloads
adminSetObsLobbyEmits(id) ==
    IF id \notin DOMAIN lobbies THEN <<>>
    ELSE LET lobby == lobbies[id] IN
         <<E(ObsRoom, "admin.setObsLobby", id),
           E(ObsRoom, "bannedUpdated", lobby.bannedMaps),
           E(ObsRoom, "pickedUpdated", lobby.pickedMaps)>>
         \o (IF lobby.family = "splatoon"
             THEN <<E(ObsRoom, "modesUpdated", lobby.bannedModes)>>
                  \o (IF lobby.pickedMode # NoMode
                      THEN <<E(ObsRoom, "modePicked", lobby.pickedMode)>> ELSE <<>>)
             ELSE <<>>)

\* an OBS view page after it received event e: each list or mode it shows is
\* the payload of the last event that carried it
ViewReceive(v, e) ==
    IF e.ev = "bannedUpdated" THEN [v EXCEPT !.bannedMaps = e.val]
    ELSE IF e.ev = "pickedUpdated" THEN [v EXCEPT !.pickedMaps = e.val]
    ELSE IF e.ev = "modesUpdated" THEN [v EXCEPT !.bannedModes = e.val]
    ELSE IF e.ev = "modePicked" THEN [v EXCEPT !.pickedMode = e.val]
    ELSE v

RECURSIVE ViewAfter(_, _)
ViewAfter(v, es) ==
    IF es = <<>> THEN v ELSE ViewAfter(ViewReceive(v, Head(es)), Tail(es))

adminSetObsLobby(id) ==
    /\ obsView' = [s \in Sockets |->
                      IF s \in Recipients(ObsRoom)
                      THEN ViewAfter(obsView[s], adminSetObsLobbyEmits(id))
                      ELSE obsView[s]]
    /\ UNCHANGED <<lobbies, rooms, sockLobbies, connected, caps, timers, startPick, mapPool, globalCoinFlip>>

ObsLobbyIds == {"L1", "L2"}
\* the four fields of lobby id an OBS view shows
Shown(id) ==
    [pickedMaps |-> lobbies[id].pickedMaps, bannedMaps |-> lobbies[id].bannedMaps,
     bannedModes |-> lobbies[id].bannedModes, pickedMode |-> lobbies[id].pickedMode]

CreateObsFPS ==
    \E s \in Sockets, id \in ObsLobbyIds :
        Do(id, createFPSLobby(s, id, "bo1", FALSE, 7, FALSE, TRUE))

CreateObsSplatoon ==
    \E s \in Sockets, id \in ObsLobbyIds :
        Do(id, createSplatoonLobby(s, id, 4, FALSE, TRUE))

JoinObsView == \E s \in {"s3"} : joinObsView(s)

BanObs ==
    \E id \in ObsLobbyIds :
        /\ id \in DOMAIN lobbies /\ Len(lobbies[id].bannedMaps) < MaxObsEntries
        /\ Do(id, lobbyBan("s1", id, "m1", "A"))

ModeBanObs ==
    \E id \in ObsLobbyIds :
        /\ id \in DOMAIN lobbies /\ Len(lobbies[id].bannedModes) < MaxObsEntries
        /\ Do(id, lobbyModeBan("s1", id, "zones", "A"))

ModePickObs ==
    \E id \in ObsLobbyIds :
        /\ id \in DOMAIN lobbies /\ lobbies[id].pickedMode = NoMode
        /\ Do(id, lobbyModePick("s1", id, "tower", "A"))

AdminSetObsLobby == \E id \in ObsLobbyIds : adminSetObsLobby(id)

NextObs ==
    \/ CreateObsFPS
    \/ CreateObsSplatoon
    \/ JoinObsView
    \/ BanObs
    \/ ModeBanObs
    \/ ModePickObs
    \/ AdminSetObsLobby

SpecObs == Init /\ [][NextObs]_vars

\* C13: after admin.setObsLobby on a lobby of the store, every connection of the
\* obs_views room shows that lobby's pickedMaps, bannedMaps, bannedModes and pickedMode.
ObsViewShowsLobby ==
    [][\A id \in ObsLobbyIds :
          (id \in DOMAIN lobbies /\ adminSetObsLobby(id))
          => \A s \in Recipients(ObsRoom) : obsView'[s] = Shown(id)]_vars

\* C14: a connection that is no member of the lobby holds no capability: no
\* canWorkUpdated, canBan, canPick, canModeBan, canModePick or canReportWinner
\* with value true was sent to it.
NonMembersHoldNothing ==
    HasLobby =>
        \A s \in Sockets \ lobbies[TheLobby].members :
            \A cap \in CapNames : ~caps[s][cap]

\* C15: when a connection closes, its id is in neither members, observers nor
\* teamNames of any lobby it had joined that is still in the store.
DisconnectLeavesNoTrace ==
    [][\A s \in Sockets :
          (s \in connected /\ s \notin connected')
          => \A id \in sockLobbies[s] \cap DOMAIN lobbies' :
                /\ s \notin lobbies'[id].members
                /\ s \notin lobbies'[id].observers
                /\ ~HasTeam(lobbies'[id].teamNames, s)]_vars

(***************************************************************************)
(* SpecDelete: lobbies come and go.  Lobbies are created with and without  *)
(* admin mode, the captains join and name their teams, s3 observes,        *)
(* connections close and the admin deletes.                                *)
(***************************************************************************)
\* gameType, knifeDecider, mapPoolSize, coinFlip, admin
DeleteConfigs ==
    { <<"bo1", FALSE, 7, FALSE, FALSE>>,
      <<"bo1", FALSE, 7, FALSE, TRUE>> }

\* what one round of the disconnect loop emits for lobby id, with the payloads
disconnectEmits(s, id) ==
    IF id \notin DOMAIN lobbies THEN <<>>
    ELSE LET lobby == lobbies[id]
             remaining == MapDelete(lobby.teamNames, s)
         IN  <<E(id, "teamNamesUpdated", remaining)>>
             \o (IF lobby.members \ {s} = {} /\ ~lobby.rules.admin
                 THEN <<E(Everyone, "lobbiesUpdated", TRUE)>>
                 ELSE <<E(id, "teamNamesUpdated", remaining)>>)

CreateDel ==
    \E s \in connected, c \in DeleteConfigs :
        Do(TheLobby, createFPSLobby(s, TheLobby, c[1], c[2], c[3], c[4], c[5]))

JoinDel ==
    \E s \in connected :
        HasLobby /\ joinLobby(s, TheLobby, IF s = "s3" THEN "observer" ELSE "member")

NameDel ==
    \E s \in connected \cap Captains, flip \in Flips :
        /\ HasLobby /\ s \in lobbies[TheLobby].members
        /\ Do(TheLobby, lobbyTeamName(s, TheLobby, RawNameOf(s), flip))

DisconnectDel == \E s \in connected : disconnect(s)

AdminDeleteDel == \E s \in connected : HasLobby /\ adminDelete(TheLobby)

AdminDeleteUnknown == \E s \in connected : ~HasLobby /\ adminDelete(TheLobby)

NextDelete ==
    \/ CreateDel
    \/ JoinDel
    \/ NameDel
    \/ DisconnectDel
    \/ AdminDeleteDel
    \/ AdminDeleteUnknown

SpecDelete == Init /\ [][NextDelete]_vars

\* C16: a lobby leaves the store only by admin.delete or by a disconnect that
\* leaves it without members while rules.admin is false; a lobby with admin
\* mode stays in the store when a connection that joined it closes, loses that
\* connection's team name, and teamNamesUpdated goes to its room with the
\* entries that remain.
LobbyLeavesByDeleteOrEmptying ==
    [][\A id \in DOMAIN lobbies :
          /\ id \notin DOMAIN lobbies'
             => \/ connected' = connected /\ adminDelete(id)
                \/ \E s \in connected :
                      /\ disconnect(s) /\ id \in sockLobbies[s]
                      /\ lobbies[id].members \ {s} = {}
                      /\ ~lobbies[id].rules.admin
          /\ \A s \in connected :
                (disconnect(s) /\ id \in sockLobbies[s] /\ lobbies[id].rules.admin)
                => /\ id \in DOMAIN lobbies'
                   /\ lobbies'[id].teamNames = MapDelete(lobbies[id].teamNames, s)
                   /\ lobbies'[id].members = lobbies[id].members \ {s}
                   /\ disconnectEmits(s, id)[1] =
                          E(id, "teamNamesUpdated", lobbies'[id].teamNames)]_vars

\* C16 witness: a lobby with admin mode is in the store after both captains
\* joined it and closed
AdminLobbyOutlivesMembers ==
    /\ HasLobby /\ lobbies[TheLobby].rules.admin
    /\ lobbies[TheLobby].members = {}
    /\ lobbies[TheLobby].teamNames = <<>>
    /\ \A s \in Captains : s \notin connected /\ TheLobby \in sockLobbies[s]

\* C17: admin.delete on a lobby of the store emits lobbyDeleted to its room,
\* takes every member out of the room and the lobby id out of the member's
\* socket.data.lobbies, and removes the lobby; on an unknown id nothing changes.
AdminDeleteEvicts ==
    [][/\ (HasLobby /\ adminDelete(TheLobby))
          => /\ TheLobby \notin DOMAIN lobbies'
             /\ \A s \in lobbies[TheLobby].members :
                   TheLobby \notin rooms'[s] /\ TheLobby \notin sockLobbies'[s]
             /\ adminDeleteEmits(TheLobby)[1] = E(TheLobby, "lobbyDeleted", TRUE)
       /\ (~HasLobby /\ adminDelete(TheLobby))
          => UNCHANGED vars /\ adminDeleteEmits(TheLobby) = <<>>]_vars

\* C17 witness: with every connection still open the lobby is gone, the captain
\* who had started the game is out of its room, the observer is still in it
MembersEvicted ==
    /\ ~HasLobby /\ connected = Sockets
    /\ caps["s1"]["canWorkUpdated"]
    /\ TheLobby \notin rooms["s1"] /\ TheLobby \notin sockLobbies["s1"]
    /\ TheLobby \in rooms["s3"]

(***************************************************************************)
(* SpecMatch: one FPS lobby played through by the clients of its two       *)
(* captains "A" and "B", s3 watches.  A client joins once, names its team  *)
(* once, and sends lobby.ban, lobby.startPick or lobby.pick under its own  *)
(* team name only on its turn: while canWorkUpdated and the control's own  *)
(* capability are on, or, for the side of a BO3/BO5 pick, when it was sent *)
(* backend.startPick.                                                      *)
(***************************************************************************)
\* gameType, knifeDecider, mapPoolSize, coinFlip, admin
MatchConfigs ==
    { <<"bo1", FALSE, 7, FALSE, FALSE>>,
      <<"bo3", TRUE, 7, TRUE, FALSE>>,
      <<"bo5", TRUE, 7, FALSE, FALSE>>,
      <<"bo3", FALSE, 7, FALSE, FALSE>>,
      <<"bo5", FALSE, 7, FALSE, FALSE>> }
\* a captain chooses among the first MaxChoice maps still open
MaxChoice == 2
MatchSides == {"t", "ct"}
\* the maps of the pool neither banned nor picked, the first MaxChoice of them
Choices ==
    LET l == lobbies[TheLobby]
        free == {i \in 1..Len(l.rules.mapNames) :
                    l.rules.mapNames[i] \notin Range(UsedMaps(l))}
    IN  {l.rules.mapNames[i] :
            i \in {j \in free : Cardinality({k \in free : k < j}) < MaxChoice}}
\* it is captain s's turn to use the control of capability cap
Turn(s, cap) == Offers(s, "canWorkUpdated") /\ Offers(s, cap)
\* the connections that emits es send backend.startPick to
Asked(es) ==
    {s \in Sockets : \E i \in 1..Len(es) :
        es[i].ev = "backend.startPick" /\ s \in Recipients(es[i].to)}

CreateMatch ==
    \E s \in Sockets, c \in MatchConfigs :
        Do(TheLobby, createFPSLobby(s, TheLobby, c[1], c[2], c[3], c[4], c[5]))

JoinMatch ==
    \E s \in Sockets :
        /\ HasLobby
        /\ s \notin lobbies[TheLobby].members \cup lobbies[TheLobby].observers
        /\ joinLobby(s, TheLobby, IF s = "s3" THEN "observer" ELSE "member")

NameMatch ==
    \E s \in Captains, flip \in Flips :
        /\ HasLobby /\ s \in lobbies[TheLobby].members
        /\ ~HasTeam(lobbies[TheLobby].teamNames, s)
        /\ Do(TheLobby, lobbyTeamName(s, TheLobby, RawNameOf(s), flip))

BanMatch ==
    \E s \in Captains :
        /\ Turn(s, "canBan")
        /\ \E map \in Choices :
              Do(TheLobby, lobbyBan(s, TheLobby, map, RawNameOf(s)))

\* BO3/BO5: the team whose pick it is chooses the map, the other team the side
StartPickMatch ==
    \E s \in Captains :
        /\ Turn(s, "canPick")
        /\ lobbies[TheLobby].rules.gameType # "bo1"
        /\ \E map \in Choices :
              LET r == lobbyStartPick(s, TheLobby, RawNameOf(s))
              IN  /\ Commit(TheLobby, r)
                  /\ startPick' = [x \in Sockets |->
                                      IF x \in Asked(r.emits) THEN map ELSE startPick[x]]

\* BO3/BO5: the answer to backend.startPick
SidePickMatch ==
    \E s \in Captains, side \in MatchSides :
        /\ HasLobby /\ s \in connected /\ startPick[s] # ""
        /\ Commit(TheLobby, lobbyPick(s, TheLobby, startPick[s], RawNameOf(s), side))
        /\ startPick' = [startPick EXCEPT ![s] = ""]

\* BO1: the picking team chooses the map and the side
PickMatch ==
    \E s \in Captains, side \in MatchSides :
        /\ Turn(s, "canPick")
        /\ lobbies[TheLobby].rules.gameType = "bo1"
        /\ \E map \in Choices :
              Do(TheLobby, lobbyPick(s, TheLobby, map, RawNameOf(s), side))

NextMatch ==
    \/ CreateMatch
    \/ JoinMatch
    \/ NameMatch
    \/ BanMatch
    \/ StartPickMatch
    \/ SidePickMatch
    \/ PickMatch

SpecMatch == Init /\ [][NextMatch]_vars

(***************************************************************************)
(* C18: the BO1 scenario                                                   *)
(***************************************************************************)
\* the scenario up to the pick: a BO1 lobby on the 7-map pool without coin flip,
\* team A (s1) named before team B (s2), six maps banned in turn, A first
SixBansIn ==
    /\ HasLobby
    /\ lobbies[TheLobby].rules.gameType = "bo1"
    /\ lobbies[TheLobby].rules.mapNames = startMapPool
    /\ ~lobbies[TheLobby].rules.coinFlip
    /\ lobbies[TheLobby].teamNames = <<[id |-> "s1", name |-> "A"], [id |-> "s2", name |-> "B"]>>
    /\ lobbies[TheLobby].bannedMaps =
          <<[map |-> "m1", teamName |-> "A"], [map |-> "m2", teamName |-> "B"],
            [map |-> "m3", teamName |-> "A"], [map |-> "m4", teamName |-> "B"],
            [map |-> "m5", teamName |-> "A"], [map |-> "m6", teamName |-> "B"]>>
    /\ lobbies[TheLobby].pickedMaps = <<>>
    /\ Turn("s1", "canPick")

\* the lobby the scenario ends in
ScenarioLobby(l) ==
    /\ l.pickedMaps = <<[map |-> "m7", teamName |-> "A", side |-> "t", sideTeamName |-> "A"]>>
    /\ Len(l.bannedMaps) = 6
    /\ l.gameStep = 7

\* C18: in a BO1 lobby on the 7-map pool, coin flip off, after A and B banned
\* m1..m6 in turn and A picks m7 with side "t", the lobby has
\* pickedMaps = [{m7, A, t, A}], six banned maps and gameStep = 7, and no
\* connection holds a capability
BO1ScenarioEndsIdle ==
    [][(SixBansIn /\ Do(TheLobby, lobbyPick("s1", TheLobby, "m7", "A", "t")))
       => /\ ScenarioLobby(lobbies'[TheLobby])
          /\ \A s \in Sockets, c \in CapNames : ~caps'[s][c]]_vars

\* the lobby part of the scenario alone
BO1ScenarioLobby ==
    [][(SixBansIn /\ Do(TheLobby, lobbyPick("s1", TheLobby, "m7", "A", "t")))
       => ScenarioLobby(lobbies'[TheLobby])]_vars

\* the scenario has run: the capabilities its last step leaves
BO1ScenarioRan ==
    /\ HasLobby /\ lobbies[TheLobby].rules.gameType = "bo1"
    /\ ScenarioLobby(lobbies[TheLobby])
    /\ caps["s1"]["canPick"] /\ ~caps["s1"]["canWorkUpdated"]
    /\ \A c \in CapNames : ~caps["s2"][c] /\ ~caps["s3"][c]

(***************************************************************************)
(* C19: the knife decider                                                  *)
(***************************************************************************)
\* the maps of the pool that are in neither list of the lobby, the last picked
\* entry left aside
OpenBeforeLast(l) ==
    LET n == Len(l.pickedMaps)
        used == {l.pickedMaps[i].map : i \in 1..(n - 1)}
                \cup {l.bannedMaps[i].map : i \in 1..Len(l.bannedMaps)}
    IN  {m \in Range(l.rules.mapNames) : m \notin used}

\* the step is a ban or a pick that moves a knife-decider lobby onto "decider"
ReachesDecider ==
    /\ HasLobby
    /\ lobbies[TheLobby].rules.knifeDecider
    /\ RuleAt(lobbies[TheLobby].rules.mapRulesList, lobbies[TheLobby].gameStep + 1) = "decider"
    /\ lobbies'[TheLobby].gameStep # lobbies[TheLobby].gameStep

\* C19: in an FPS lobby with knifeDecider, a ban or pick that advances gameStep
\* to a "decider" entry of the pattern appends, in the same step, the single
\* map of the pool that is neither picked nor banned, with side "DECIDER" and
\* empty teamName and sideTeamName, increments gameStep once more, and leaves
\* every connection with all capabilities off
KnifeDeciderFalls ==
    [][ReachesDecider
       => LET l == lobbies[TheLobby]
              l1 == lobbies'[TheLobby]
              n == Len(l1.pickedMaps)
          IN  /\ l1.gameStep = l.gameStep + 2
              /\ Len(l1.pickedMaps) + Len(l1.bannedMaps)
                    = Len(l.pickedMaps) + Len(l.bannedMaps) + 2
              /\ n >= 1
              /\ l1.pickedMaps[n].side = "DECIDER"
              /\ l1.pickedMaps[n].teamName = "" /\ l1.pickedMaps[n].sideTeamName = ""
              /\ OpenBeforeLast(l1) = {l1.pickedMaps[n].map}
              /\ \A s \in Sockets, c \in CapNames : ~caps'[s][c]]_vars

\* a BO5 lobby whose fourth pick brought the knife decider: the ceremony is over
KnifeDeciderFell ==
    /\ HasLobby
    /\ lobbies[TheLobby].rules.knifeDecider
    /\ lobbies[TheLobby].rules.gameType = "bo5"
    /\ lobbies[TheLobby].gameStep = 7
    /\ Len(lobbies[TheLobby].bannedMaps) = 2 /\ Len(lobbies[TheLobby].pickedMaps) = 5
    /\ lobbies[TheLobby].pickedMaps[5].side = "DECIDER"
    /\ \A s \in Sockets, c \in CapNames : ~caps[s][c]

\* a BO3 lobby whose fourth ban brought the knife decider
KnifeDeciderFellAfterBan ==
    /\ HasLobby
    /\ lobbies[TheLobby].rules.knifeDecider
    /\ lobbies[TheLobby].rules.gameType = "bo3"
    /\ lobbies[TheLobby].gameStep = 7
    /\ Len(lobbies[TheLobby].bannedMaps) = 4 /\ Len(lobbies[TheLobby].pickedMaps) = 3
    /\ lobbies[TheLobby].pickedMaps[3].side = "DECIDER"

(***************************************************************************)
(* C20: the Splatoon map pick ends the round's choices                     *)
(***************************************************************************)
\* the Splatoon lobby of SpecSplatoon up to the map pick that ends a round's
\* choices: no winner is reported, so the lobby stays in its first round
NextRoundOne ==
    \/ CreateRounds
    \/ JoinRounds
    \/ NameRounds
    \/ TimerRounds
    \/ ModeBanRounds
    \/ ModePickRounds
    \/ BanRounds
    \/ PickRounds

SpecRoundOne == Init /\ [][NextRoundOne]_vars

\* the five capabilities of the choices of a round
RoundCaps == {"canWorkUpdated", "canBan", "canPick", "canModeBan", "canModePick"}

\* C20: when a Splatoon map pick is accepted, canWorkUpdated, canBan, canPick,
\* canModeBan and canModePick are off for all connections and both members
\* hold canReportWinner
PickEndsRound ==
    [][PickRounds
       => /\ \A s \in Sockets, c \in RoundCaps : ~caps'[s][c]
          /\ Cardinality(lobbies'[TheLobby].members) = 2
          /\ \A s \in lobbies'[TheLobby].members : caps'[s]["canReportWinner"]]_vars

\* the 4-mode round-1 scenario has run: A banned two maps, B three, A picked
RoundOneMapPicked ==
    /\ HasLobby
    /\ lobbies[TheLobby].rules.modesSize = 4
    /\ lobbies[TheLobby].rules.roundNumber = 1
    /\ [i \in 1..Len(lobbies[TheLobby].bannedMaps) |-> lobbies[TheLobby].bannedMaps[i].teamName]
          = <<"A", "A", "B", "B", "B">>
    /\ Len(lobbies[TheLobby].pickedMaps) = 1
    /\ lobbies[TheLobby].pickedMaps[1].teamName = "A"
    /\ \A s \in Sockets, c \in RoundCaps : ~caps[s][c]
    /\ lobbies[TheLobby].members = {"s1", "s2"}
    /\ caps["s1"]["canReportWinner"] /\ caps["s2"]["canReportWinner"]

(***************************************************************************)
(* SpecSeries: a Splatoon lobby played over several rounds by the clients  *)
(* of its two captains, winners proposed and confirmed or rejected.  Each  *)
(* client joins once, names its team once and uses a control only while    *)
(* its capability is on.  A 2-mode lobby has no mode ban: its client       *)
(* answers the grant of the mode step with lobby.modePick.                 *)
(***************************************************************************)
ModePickTwoModes ==
    \E s \in Captains :
        /\ Offers(s, "canModeBan")
        /\ lobbies[TheLobby].rules.modesSize = 2
        /\ lobbies[TheLobby].gameStep < MaxStep
        /\ lobbies[TheLobby].rules.activeModes # <<>>
        /\ Do(TheLobby, lobbyModePick(s, TheLobby, FirstMode, RawNameOf(s)))

NextSeries ==
    \/ CreateRounds
    \/ JoinMatch
    \/ NameMatch
    \/ TimerRounds
    \/ ModeBanRounds
    \/ ModePickRounds
    \/ ModePickTwoModes
    \/ BanRounds
    \/ PickRounds
    \/ ProposeWinner
    \/ ConfirmWinner

SpecSeries == Init /\ [][NextSeries]_vars

(***************************************************************************)
(* C21: the map bans of a later round of a 2-mode lobby                    *)
(***************************************************************************)
\* connection s holds one of the capabilities of a round's choices
Chooses(c, s) == \E cap \in RoundCaps : c[s][cap]
\* connection s holds exactly canWorkUpdated and capability cap of them
ChoosesOnly(c, s, cap) ==
    \A k \in RoundCaps : c[s][k] <=> k \in {"canWorkUpdated", cap}
\* lobby l is a 2-mode lobby in a round after the first
LaterRoundOfTwo(l) == l.family = "splatoon" /\ l.rules.modesSize = 2 /\ l.rules.roundNumber > 1

\* C21: in a round N > 1 of a 2-mode lobby with last winner W, the ban
\* capability stays with W until W has banned 2 maps in the round, then passes
\* to the loser until the loser has banned 3, then W is granted the pick; at no
\* point do both teams hold a capability of the round's choices
WinnerBansTwoLoserThree ==
    [][(HasLobby /\ LaterRoundOfTwo(lobbies'[TheLobby]))
       => LET l == lobbies[TheLobby]
              l1 == lobbies'[TheLobby]
              W == l1.rules.lastWinner
              w == SocketOfTeam(l1.teamNames, W)
              o == OtherSocketId(l1.teamNames, W)
              banned == Len(l1.bannedMaps) = Len(l.bannedMaps) + 1
              by == l1.bannedMaps[Len(l1.bannedMaps)].teamName
          IN  /\ ~(Chooses(caps', "s1") /\ Chooses(caps', "s2"))
              /\ banned =>
                   /\ w \in Captains /\ o \in Captains
                   /\ by = W => /\ RoundBans(l1, W) <= 2
                                /\ RoundBans(l1, OtherName(l1.teamNames, W)) = 0
                                /\ RoundBans(l1, W) < 2
                                      => ChoosesOnly(caps', w, "canBan") /\ ~Chooses(caps', o)
                                /\ RoundBans(l1, W) = 2
                                      => ChoosesOnly(caps', o, "canBan") /\ ~Chooses(caps', w)
                   /\ by # W => /\ RoundBans(l1, W) = 2
                                /\ RoundBans(l1, by) <= 3
                                /\ RoundBans(l1, by) < 3
                                      => ChoosesOnly(caps', o, "canBan") /\ ~Chooses(caps', w)
                                /\ RoundBans(l1, by) = 3
                                      => ChoosesOnly(caps', w, "canPick") /\ ~Chooses(caps', o)]_vars

\* round 2 of a 2-mode lobby won by B: B banned two maps, A three, B holds the pick
LoserBannedThree ==
    /\ HasLobby /\ LaterRoundOfTwo(lobbies[TheLobby])
    /\ lobbies[TheLobby].rules.lastWinner = "B"
    /\ RoundBans(lobbies[TheLobby], "B") = 2 /\ RoundBans(lobbies[TheLobby], "A") = 3
    /\ ChoosesOnly(caps, "s2", "canPick") /\ ~Chooses(caps, "s1")

(***************************************************************************)
(* C22: a rejected winner                                                  *)
(***************************************************************************)
\* the connections emits es send event ev to
SentTo(es, ev) ==
    {s \in Sockets : \E i \in 1..Len(es) : es[i].ev = ev /\ s \in Recipients(es[i].to)}
\* the rejections a captain's client can send: the captain and the proposed winner
Rejections ==
    {<<s, w>> \in Captains \X Names : Offers(s, "canReportWinner")}
\* what lobby.confirmWinner{confirmed: false} of captain x[1] does
Rejected(x) == lobbyConfirmWinner(TheLobby, x[2], FALSE, RawNameOf(x[1]))

WorkFirst(es) ==
    \A i \in 1..Len(es) :
        (es[i].ev \in SubCaps /\ es[i].val = TRUE)
        => \A x \in Recipients(es[i].to) :
              \E j \in 1..(i - 1) :
                  /\ es[j].ev = "canWorkUpdated" /\ es[j].val = TRUE
                  /\ x \in Recipients(es[j].to)

\* the steps of the handlers a captain's event can start in the current state
HandlersWorkFirst ==
    HasLobby =>
        \A s \in Captains :
            /\ \A flip \in Flips :
                  WorkFirst(lobbyTeamName(s, TheLobby, RawNameOf(s), flip).emits)
            /\ \A mode \in Range(gameModes) :
                  /\ WorkFirst(lobbyModeBan(s, TheLobby, mode, RawNameOf(s)).emits)
                  /\ WorkFirst(lobbyModePick(s, TheLobby, mode, RawNameOf(s)).emits)
            /\ \A map \in {"m1", "p1"} :
                  /\ WorkFirst(lobbyBan(s, TheLobby, map, RawNameOf(s)).emits)
                  /\ WorkFirst(lobbyPick(s, TheLobby, map, RawNameOf(s), "t").emits)
            /\ WorkFirst(lobbyStartPick(s, TheLobby, RawNameOf(s)).emits)
            /\ \A w \in Names, confirmed \in BOOLEAN :
                  WorkFirst(lobbyConfirmWinner(TheLobby, w, confirmed, RawNameOf(s)).emits)

\* C23: in every controller step, a connection that is granted canBan, canPick,
\* canModeBan or canModePick = true was sent canWorkUpdated = true earlier in
\* the same step
GrantsFollowWork ==
    /\ HandlersWorkFirst
    /\ \A t \in timers : WorkFirst(timerFireEmits(t))

(***************************************************************************)
(* C24: the emits of a step precede the next inbound event                 *)
(***************************************************************************)
\* C24: all events a step of a lobby causes are emitted before the next
\* inbound event of the lobby is handled: while the canModeBan grant of a
\* Splatoon start is still to be emitted, the only step taken is its emission
GrantBeforeNextEvent ==
    [][timers # {} => \E t \in timers : timerFire(t)]_vars

\* a grant that comes late: canModeBan = true is still to be emitted for a
\* connection that has closed, its team gone from the lobby
LateGrant ==
    \E t \in timers :
        /\ t \notin connected
        /\ \A id \in DOMAIN lobbies : ~HasTeam(lobbies[id].teamNames, t)

(***************************************************************************)
(* admin.editFPSMapPool / admin.coinFlipUpdate, and SpecCatalog: lobbies   *)
(* are created while the admin edits the map pool and the default coin     *)
(* flip.                                                                   *)
(***************************************************************************)
\* a pool the admin sends
EditedMapPool == <<"n1", "n2", "n3", "n4", "n5", "n6", "n7">>

\* admin.editFPSMapPool on a catalog the lobbies share: the lobbies created on
\* the full pool follow the edit
adminEditFPSMapPoolShared(given, newMapPool) ==
    /\ mapPool' = IF given THEN newMapPool ELSE startMapPool
    /\ lobbies' = [id \in DOMAIN lobbies |->
                      IF lobbies[id].rules.mapNames = mapPool
                      THEN [lobbies[id] EXCEPT !.rules.mapNames = mapPool']
                      ELSE lobbies[id]]
    /\ UNCHANGED <<rooms, sockLobbies, connected, caps, timers, obsView,
                   startPick, globalCoinFlip>>

\* admin.editFPSMapPool: the catalog's pool is replaced by the payload, or by
\* the start pool when the payload is missing
adminEditFPSMapPool(given, newMapPool) ==
    /\ mapPool' = IF given THEN newMapPool ELSE startMapPool
    /\ UNCHANGED <<lobbies, rooms, sockLobbies, connected, caps, timers, obsView,
                   startPick, globalCoinFlip>>

\* admin.coinFlipUpdate; coinFlipUpdated carries no capability
adminCoinFlipUpdate(coinFlip) ==
    /\ globalCoinFlip' = coinFlip
    /\ UNCHANGED <<lobbies, rooms, sockLobbies, connected, caps, timers, obsView,
                   startPick, mapPool>>

\* coinFlip ?? globalCoinFlip
CoinFlipOr(given, coinFlip) == IF given THEN coinFlip ELSE globalCoinFlip

\* createFPSLobby payloads: gameType, mapPoolSize, coinFlip given, coinFlip;
\* the bo1 payloads carry no coinFlip and the bo3 payloads carry one
CatalogConfigs ==
    { <<"bo1", 7, FALSE, FALSE>>, <<"bo1", 4, FALSE, FALSE>>,
      <<"bo3", 7, TRUE, FALSE>>, <<"bo3", 7, TRUE, TRUE>> }

CreateCatalog ==
    \E s \in Sockets, id \in ObsLobbyIds, c \in CatalogConfigs :
        Do(id, createFPSLobby(s, id, c[1], FALSE, c[2], CoinFlipOr(c[3], c[4]), FALSE))

EditFPSMapPool ==
    \E given \in BOOLEAN : adminEditFPSMapPool(given, EditedMapPool)

CoinFlipUpdate ==
    \E coinFlip \in BOOLEAN : adminCoinFlipUpdate(coinFlip)

NextCatalog ==
    \/ CreateCatalog
    \/ EditFPSMapPool
    \/ CoinFlipUpdate

SpecCatalog == Init /\ [][NextCatalog]_vars

\* C25: admin.editFPSMapPool (new pool or reset) and admin.coinFlipUpdate leave
\* rules.mapNames, rules.mapRulesList and rules.coinFlip of every lobby already
\* created unchanged; a lobby created afterwards is created on the pool of
\* that moment and, when its payload carries no coinFlip (bo1 here), with the
\* default of that moment
CatalogEditsSpareLobbies ==
    [][/\ \A id \in DOMAIN lobbies :
             /\ id \in DOMAIN lobbies'
             /\ lobbies'[id].rules.mapNames = lobbies[id].rules.mapNames
             /\ lobbies'[id].rules.mapRulesList = lobbies[id].rules.mapRulesList
             /\ lobbies'[id].rules.coinFlip = lobbies[id].rules.coinFlip
       /\ \A id \in DOMAIN lobbies' \ DOMAIN lobbies :
             /\ lobbies'[id].rules.mapNames \in {mapPool, Slice(mapPool, 4)}
             /\ lobbies'[id].rules.gameType = "bo1"
                   => lobbies'[id].rules.coinFlip = globalCoinFlip
       /\ (mapPool' # mapPool \/ globalCoinFlip' # globalCoinFlip)
             => lobbies' = lobbies]_vars

\* L1 was created on the start pool with the default coin flip, the admin
\* edited both, and L2 was created afterwards: each keeps what it was created with
OldAndNewLobby ==
    /\ DOMAIN lobbies = {"L1", "L2"}
    /\ lobbies["L1"].rules.mapNames = startMapPool /\ lobbies["L1"].rules.coinFlip
    /\ lobbies["L2"].rules.mapNames = EditedMapPool /\ ~lobbies["L2"].rules.coinFlip
    /\ lobbies["L2"].rules.gameType = "bo1"
    /\ mapPool = EditedMapPool /\ ~globalCoinFlip

(***************************************************************************)
(* C26: the end of an FPS ceremony                                         *)
(***************************************************************************)
\* C26: in an FPS lobby, whenever gameStep >= 7 no connection holds
\* canWorkUpdated, canBan or canPick (being an invariant, it also says so of
\* every later state)
FinishedFPSHoldsNothing ==
    (HasLobby /\ lobbies[TheLobby].gameStep >= 7)
        => \A s \in Sockets :
              ~caps[s]["canWorkUpdated"] /\ ~caps[s]["canBan"] /\ ~caps[s]["canPick"]

\* the same with canPick left aside
FinishedFPSWorksNoMore ==
    (HasLobby /\ lobbies[TheLobby].gameStep >= 7)
        => \A s \in Sockets : ~caps[s]["canWorkUpdated"] /\ ~caps[s]["canBan"]

\* a finished lobby whose last picker still holds canPick
FinishedFPSStillPicks ==
    /\ HasLobby /\ lobbies[TheLobby].gameStep >= 7
    /\ \E s \in Sockets : caps[s]["canPick"]

(***************************************************************************)
(* C27: an FPS ban                                                         *)
(***************************************************************************)
\* captain x bans map on its turn, two teams present
BansOnTurn(x, map) ==
    /\ Turn(x, "canBan")
    /\ Len(lobbies[TheLobby].teamNames) = 2
    /\ map \in Choices
    /\ Do(TheLobby, lobbyBan(x, TheLobby, map, RawNameOf(x)))

\* the step appended {map, teamName} and took x's canWorkUpdated and canBan
BanRecorded(x, map) ==
    /\ lobbies'[TheLobby].bannedMaps =
           Append(lobbies[TheLobby].bannedMaps, [map |-> map, teamName |-> RawNameOf(x)])
    /\ ~caps'[x]["canWorkUpdated"] /\ ~caps'[x]["canBan"]

\* the step granted y canWorkUpdated and cap, and granted nobody else anything
GrantedAlone(y, cap) ==
    /\ caps'[y]["canWorkUpdated"] /\ caps'[y][cap]
    /\ \A s \in Sockets \ {y}, c \in CapNames : caps'[s][c] => caps[s][c]
    /\ \A c \in CapNames \ {"canWorkUpdated", cap} : caps'[y][c] => caps[y][c]

\* the grant that follows a ban whose new step s is under 7 and names ban or pick
BanPassesTurn(x) ==
    LET l == lobbies'[TheLobby]
        y == CHOOSE c \in Captains : c # x
        rule == RuleAt(l.rules.mapRulesList, l.gameStep)
    IN  /\ (l.gameStep < 7 /\ rule = "ban") => GrantedAlone(y, "canBan")
        /\ (l.gameStep < 7 /\ rule = "pick") => GrantedAlone(y, "canPick")

\* C27 as stated: an accepted FPS ban by member X with two teams present
\* appends {map, teamName} to bannedMaps, raises gameStep by exactly 1, turns
\* X's canWorkUpdated and canBan off and, if the new gameStep < 7, grants the
\* other member and nobody else the capability named by pattern[gameStep]
BanStepsByOne ==
    [][\A x \in Captains, map \in Range(startMapPool) :
          BansOnTurn(x, map)
              => /\ BanRecorded(x, map)
                 /\ lobbies'[TheLobby].gameStep = lobbies[TheLobby].gameStep + 1
                 /\ BanPassesTurn(x)]_vars

\* C27 amended: the same, gameStep rising by 2 when the ban moves a
\* knife-decider lobby onto its decider entry (the knife decider's own step is
\* taken in the same event) and by exactly 1 otherwise
BanStepsByOneOrKnife ==
    [][\A x \in Captains, map \in Range(startMapPool) :
          BansOnTurn(x, map)
              => LET l == lobbies[TheLobby]
                     knife == /\ l.rules.knifeDecider
                              /\ RuleAt(l.rules.mapRulesList, l.gameStep + 1) = "decider"
                 IN  /\ BanRecorded(x, map)
                     /\ lobbies'[TheLobby].gameStep =
                            l.gameStep + (IF knife THEN 2 ELSE 1)
                     /\ BanPassesTurn(x)]_vars

\* a ban has passed the turn: one ban is recorded and the other captain, alone,
\* holds canWorkUpdated and canBan
BanPassedTurn ==
    /\ HasLobby /\ Len(lobbies[TheLobby].bannedMaps) = 1
    /\ lobbies[TheLobby].gameStep = 1
    /\ \E y \in Captains :
          /\ lobbies[TheLobby].bannedMaps[1].teamName # RawNameOf(y)
          /\ caps[y]["canWorkUpdated"] /\ caps[y]["canBan"]
          /\ \A s \in Sockets \ {y}, c \in CapNames : ~caps[s][c]

(***************************************************************************)
(* C28: who picks the map and who picks the side                           *)
(***************************************************************************)
\* the other captain
Opposite(x) == CHOOSE c \in Captains : c # x

\* the step appended a pickedMaps entry picked by team and sided by sideTeam
\* (the knife decider's entry may follow it in the same step)
PickAppended(team, sideTeam) ==
    LET before == lobbies[TheLobby].pickedMaps
        after == lobbies'[TheLobby].pickedMaps
        n == Len(before) + 1
    IN  /\ Len(after) >= n
        /\ SubSeq(after, 1, Len(before)) = before
        /\ after[n].teamName = team
        /\ after[n].sideTeamName = sideTeam
        /\ after[n].side \in MatchSides

\* C28: in BO3/BO5, after member X issues startPick for a map the side
\* selection is handed to the opposite member Y and X loses canWorkUpdated and
\* canPick, and the entry Y's answer appends has teamName = X's name and
\* sideTeamName = Y's name; in BO1 the picking member selects the side and the
\* entry has teamName = sideTeamName = that member's name
MapPickerAndSidePicker ==
    [][/\ StartPickMatch
          => \A x \in Captains :
                Turn(x, "canPick")
                    => /\ ~caps'[x]["canWorkUpdated"] /\ ~caps'[x]["canPick"]
                       /\ startPick'[Opposite(x)] \in Choices
                       /\ startPick'[x] = startPick[x]
                       /\ lobbies' = lobbies
       /\ SidePickMatch
          => \A y \in Captains :
                (startPick[y] # "" /\ startPick'[y] = "")
                    => /\ PickAppended(RawNameOf(Opposite(y)), RawNameOf(y))
                       /\ lobbies'[TheLobby].pickedMaps[Len(lobbies[TheLobby].pickedMaps) + 1].map
                              = startPick[y]
       /\ PickMatch
          => \A x \in Captains :
                Turn(x, "canPick") => PickAppended(RawNameOf(x), RawNameOf(x))]_vars

\* a BO3/BO5 lobby whose first pick was chosen by A and sided by B, and a later
\* one chosen by B and sided by A
BothPickedBothSided ==
    /\ HasLobby /\ lobbies[TheLobby].rules.gameType # "bo1"
    /\ Len(lobbies[TheLobby].pickedMaps) >= 2
    /\ lobbies[TheLobby].pickedMaps[1].teamName # lobbies[TheLobby].pickedMaps[1].sideTeamName
    /\ lobbies[TheLobby].pickedMaps[2].teamName = lobbies[TheLobby].pickedMaps[1].sideTeamName
    /\ lobbies[TheLobby].pickedMaps[2].sideTeamName = lobbies[TheLobby].pickedMaps[1].teamName

(***************************************************************************)
(* C29: the decider without knife                                          *)
(***************************************************************************)
\* the lobby has no knife decider and stands on its decider entry
OnPickedDecider(l) ==
    /\ ~l.rules.knifeDecider
    /\ RuleAt(l.rules.mapRulesList, l.gameStep) = "decider"

\* the step is a ban or a side pick by captain x that moves the lobby onto
\* the decider entry
LeadsToDecider(x) ==
    /\ HasLobby
    /\ ~OnPickedDecider(lobbies[TheLobby])
    /\ OnPickedDecider(lobbies'[TheLobby])
    /\ \/ Turn(x, "canBan") /\ BanMatch
       \/ startPick[x] # "" /\ startPick'[x] = "" /\ SidePickMatch

\* the first half of C29: on reaching the decider entry, the member other than
\* the one whose action led there is granted canWorkUpdated and canPick, and
\* nobody else is granted anything
DeciderGrantedToOther ==
    [][\A x \in Captains : LeadsToDecider(x) => GrantedAlone(Opposite(x), "canPick")]_vars

\* C29: in an FPS lobby with knifeDecider = false, when gameStep reaches a
\* pattern entry equal to decider, the pick capability is granted to the member
\* other than the one whose action led there and to nobody else, and that same
\* member both picks the decider map and chooses its side: the decider's
\* pickedMaps entry has teamName = sideTeamName = that member's name
DeciderPickedAndSidedByOther ==
    [][/\ \A x \in Captains : LeadsToDecider(x) => GrantedAlone(Opposite(x), "canPick")
       /\ (HasLobby /\ OnPickedDecider(lobbies[TheLobby])
                    /\ Len(lobbies'[TheLobby].pickedMaps) > Len(lobbies[TheLobby].pickedMaps))
          => LET e == lobbies'[TheLobby].pickedMaps[Len(lobbies'[TheLobby].pickedMaps)]
             IN  /\ e.teamName = e.sideTeamName
                 /\ \E y \in Captains : e.teamName = RawNameOf(y)]_vars

\* the decider of a lobby without knife decider has been picked, the map by one
\* team and the side by the other
DeciderSidedByTheOther ==
    /\ HasLobby /\ ~lobbies[TheLobby].rules.knifeDecider
    /\ lobbies[TheLobby].rules.gameType # "bo1"
    /\ lobbies[TheLobby].gameStep = 7
    /\ LET e == lobbies[TheLobby].pickedMaps[Len(lobbies[TheLobby].pickedMaps)]
       IN  e.teamName # e.sideTeamName /\ e.teamName # "" /\ e.sideTeamName # ""

(***************************************************************************)
(* C30: the map bans of the first round                                    *)
(***************************************************************************)
\* C30: in round 1 of a Splatoon lobby, 2-mode or 4-mode, with priority team
\* P, the map-ban capability stays with P until P has banned 2 maps in the
\* round, then passes to the other team until that team has banned 3, after
\* which P and only P is granted canPick; after each of these bans exactly one
\* team holds a capability
PriorityBansTwoOtherThree ==
    [][(HasLobby /\ lobbies'[TheLobby].family = "splatoon"
                 /\ lobbies'[TheLobby].rules.roundNumber = 1
                 /\ TheLobby \in DOMAIN lobbies
                 /\ Len(lobbies'[TheLobby].bannedMaps) = Len(lobbies[TheLobby].bannedMaps) + 1)
       => LET l1 == lobbies'[TheLobby]
              P == l1.priorityTeam
              p == SocketOfTeam(l1.teamNames, P)
              o == OtherSocketId(l1.teamNames, P)
              by == l1.bannedMaps[Len(l1.bannedMaps)].teamName
          IN  /\ p \in Captains /\ o \in Captains /\ p # o
              /\ l1.rules.modesSize \in {2, 4}
              /\ by = P => /\ RoundBans(l1, P) <= 2
                           /\ RoundBans(l1, OtherName(l1.teamNames, P)) = 0
                           /\ RoundBans(l1, P) < 2
                                 => ChoosesOnly(caps', p, "canBan") /\ ~Chooses(caps', o)
                           /\ RoundBans(l1, P) = 2
                                 => ChoosesOnly(caps', o, "canBan") /\ ~Chooses(caps', p)
              /\ by # P => /\ RoundBans(l1, P) = 2
                           /\ RoundBans(l1, by) <= 3
                           /\ RoundBans(l1, by) < 3
                                 => ChoosesOnly(caps', o, "canBan") /\ ~Chooses(caps', p)
                           /\ RoundBans(l1, by) = 3
                                 => ChoosesOnly(caps', p, "canPick") /\ ~Chooses(caps', o)]_vars

\* round 1 of a 2-mode lobby: the priority team banned two maps, the other
\* team three, and the priority team alone holds the pick
FirstRoundBansDone ==
    /\ HasLobby /\ lobbies[TheLobby].family = "splatoon"
    /\ lobbies[TheLobby].rules.modesSize = 2
    /\ lobbies[TheLobby].rules.roundNumber = 1
    /\ LET l == lobbies[TheLobby]
           P == l.priorityTeam
       IN  /\ RoundBans(l, P) = 2 /\ RoundBans(l, OtherName(l.teamNames, P)) = 3
           /\ ChoosesOnly(caps, SocketOfTeam(l.teamNames, P), "canPick")
           /\ ~Chooses(caps, OtherSocketId(l.teamNames, P))

(***************************************************************************)
(* C31: the map bans of a later round of a 4-mode lobby                    *)
(***************************************************************************)
\* lobby l is a 4-mode lobby in a round after the first
LaterRoundOfFour(l) == l.family = "splatoon" /\ l.rules.modesSize = 4 /\ l.rules.roundNumber > 1

\* C31: in a round N > 1 of a 4-mode lobby with last winner W, the ban
\* capability stays with W until W has banned 3 maps in the round, then the
\* loser and only the loser is granted canPick; after every map ban of such a
\* round exactly one member holds a capability of the round's choices
WinnerBansThreeLoserPicks ==
    [][(HasLobby /\ LaterRoundOfFour(lobbies'[TheLobby])
                 /\ Len(lobbies'[TheLobby].bannedMaps) = Len(lobbies[TheLobby].bannedMaps) + 1)
       => LET l1 == lobbies'[TheLobby]
              W == l1.rules.lastWinner
              w == SocketOfTeam(l1.teamNames, W)
              o == OtherSocketId(l1.teamNames, W)
              by == l1.bannedMaps[Len(l1.bannedMaps)].teamName
          IN  /\ w \in Captains /\ o \in Captains /\ w # o
              /\ by = W
              /\ RoundBans(l1, W) <= 3
              /\ RoundBans(l1, OtherName(l1.teamNames, W)) = 0
              /\ RoundBans(l1, W) < 3
                    => ChoosesOnly(caps', w, "canBan") /\ ~Chooses(caps', o)
              /\ RoundBans(l1, W) = 3
                    => ChoosesOnly(caps', o, "canPick") /\ ~Chooses(caps', w)]_vars

\* round 2 of a 4-mode lobby: the winner banned three maps and the loser alone
\* holds the pick
WinnerBannedThree ==
    /\ HasLobby /\ LaterRoundOfFour(lobbies[TheLobby])
    /\ LET l == lobbies[TheLobby]
           W == l.rules.lastWinner
       IN  /\ RoundBans(l, W) = 3
           /\ ChoosesOnly(caps, OtherSocketId(l.teamNames, W), "canPick")
           /\ ~Chooses(caps, SocketOfTeam(l.teamNames, W))

(***************************************************************************)
(* C32: the mode phase of a 4-mode lobby                                   *)
(***************************************************************************)
\* C32: in the mode phase of a 4-mode lobby, in round 1 the priority team bans
\* one mode, then the other team bans one mode, then the priority team (the
\* first banner) is granted canModePick; in a round N > 1 the priority team
\* (the last winner) bans one mode and then the other team is granted
\* canModePick; after each mode ban exactly one member holds a capability
ModeBansThenModePick ==
    [][(HasLobby /\ TheLobby \in DOMAIN lobbies'
                 /\ Len(lobbies'[TheLobby].bannedModes) = Len(lobbies[TheLobby].bannedModes) + 1)
       => LET l1 == lobbies'[TheLobby]
              P == l1.priorityTeam
              p == SocketOfTeam(l1.teamNames, P)
              o == OtherSocketId(l1.teamNames, P)
              n == Len(l1.bannedModes)
              by == l1.bannedModes[n].teamName
          IN  /\ l1.rules.modesSize = 4
              /\ p \in Captains /\ o \in Captains /\ p # o
              /\ l1.rules.roundNumber = 1
                    => /\ n <= 2
                       /\ n = 1 => /\ by = P
                                   /\ ChoosesOnly(caps', o, "canModeBan")
                                   /\ ~Chooses(caps', p)
                       /\ n = 2 => /\ by # P /\ l1.bannedModes[1].teamName = P
                                   /\ ChoosesOnly(caps', p, "canModePick")
                                   /\ ~Chooses(caps', o)
              /\ l1.rules.roundNumber > 1
                    => /\ P = l1.rules.lastWinner
                       /\ by = P
                       /\ ChoosesOnly(caps', o, "canModePick")
                       /\ ~Chooses(caps', p)]_vars

\* round 2 of a 4-mode lobby: the last winner banned a mode and the other team
\* alone holds the mode pick
LoserPicksMode ==
    /\ HasLobby /\ LaterRoundOfFour(lobbies[TheLobby])
    /\ LET l == lobbies[TheLobby]
           W == l.rules.lastWinner
       IN  /\ Len(l.bannedModes) = 1
           /\ l.bannedModes[Len(l.bannedModes)].teamName = W
           /\ ChoosesOnly(caps, OtherSocketId(l.teamNames, W), "canModePick")
           /\ ~Chooses(caps, SocketOfTeam(l.teamNames, W))

(***************************************************************************)
(* SpecModes: the mode phase of one Splatoon lobby, the captains using the *)
(* mode controls only while the capability is on but naming any mode of    *)
(* the catalog.                                                            *)
(***************************************************************************)
ModeBanAny ==
    \E s \in Captains, mode \in Range(gameModes) :
        /\ Offers(s, "canModeBan")
        /\ Len(lobbies[TheLobby].bannedModes) < MaxModeBans
        /\ Do(TheLobby, lobbyModeBan(s, TheLobby, mode, RawNameOf(s)))

ModePickAny ==
    \E s \in Captains, mode \in Range(gameModes) :
        /\ Offers(s, "canModePick")
        /\ lobbies[TheLobby].gameStep < MaxStep
        /\ Do(TheLobby, lobbyModePick(s, TheLobby, mode, RawNameOf(s)))

NextModes ==
    \/ CreateRounds
    \/ JoinMatch
    \/ NameMatch
    \/ TimerRounds
    \/ ModeBanAny
    \/ ModePickAny

SpecModes == Init /\ [][NextModes]_vars

\* the modes named by the entries of bannedModes
BannedModeNames(l) == [i \in 1..Len(l.bannedModes) |-> l.bannedModes[i].mode]

\* C33: a modeBan or modePick naming a mode that is not in rules.activeModes
\* changes no state, each accepted modeBan of m removes m from activeModes and
\* appends it to bannedModes, and modePick of m sets pickedMode to m and
\* rules.mapNames to m's pool; hence no mode appears twice in bannedModes and
\* pickedMode is never a banned mode
ModesValidated ==
    HasLobby =>
        LET l == lobbies[TheLobby]
            names == BannedModeNames(l)
        IN  /\ \A i, j \in 1..Len(names) : names[i] = names[j] => i = j
            /\ l.pickedMode.mode \notin Range(names)
            /\ \A i \in 1..Len(names) : names[i] \notin Range(l.rules.activeModes)

\* the part of C33 about what an event records: a modeBan of m appends m to
\* bannedModes and leaves m out of activeModes, a modePick of m sets pickedMode
\* to m and rules.mapNames to m's pool
ModeStepsRecorded ==
    [][\A s \in Captains, m \in Range(gameModes) :
          /\ (Offers(s, "canModeBan") /\ Do(TheLobby, lobbyModeBan(s, TheLobby, m, RawNameOf(s))))
                => /\ BannedModeNames(lobbies'[TheLobby])
                          = Append(BannedModeNames(lobbies[TheLobby]), m)
                   /\ m \notin Range(lobbies'[TheLobby].rules.activeModes)
          /\ (Offers(s, "canModePick") /\ Do(TheLobby, lobbyModePick(s, TheLobby, m, RawNameOf(s))))
                => /\ lobbies'[TheLobby].pickedMode.mode = m
                   /\ lobbies'[TheLobby].rules.mapNames = splatoonMapPool(m)]_vars

\* both captains banned the same mode and it was then picked
ModeBannedTwiceAndPicked ==
    /\ HasLobby /\ Len(lobbies[TheLobby].bannedModes) = 2
    /\ lobbies[TheLobby].bannedModes[1].mode = lobbies[TheLobby].bannedModes[2].mode
    /\ lobbies[TheLobby].bannedModes[1].teamName # lobbies[TheLobby].bannedModes[2].teamName
    /\ lobbies[TheLobby].pickedMode.mode = lobbies[TheLobby].bannedModes[1].mode

(***************************************************************************)
(* C34: a 2-mode lobby has no mode veto                                    *)
(***************************************************************************)
\* the lobby is a Splatoon lobby of two modes
TwoModes == HasLobby /\ lobbies[TheLobby].family = "splatoon"
                     /\ lobbies[TheLobby].rules.modesSize = 2

\* C34: in a Splatoon lobby with modesSize = 2 canModeBan is never granted to
\* any connection, bannedModes stays empty and a modeBan event changes no state
TwoModesNoModeVeto ==
    TwoModes =>
        /\ \A s \in Sockets : ~caps[s]["canModeBan"]
        /\ lobbies[TheLobby].bannedModes = <<>>
        /\ \A s \in Sockets, m \in Range(gameModes) :
              ~lobbyModeBan(s, TheLobby, m, RawNameOf(s)).hit

\* the part of C34 about lobby.modeBan: bannedModes stays empty and a modeBan
\* event writes nothing and emits nothing
TwoModesBanIgnored ==
    TwoModes =>
        /\ lobbies[TheLobby].bannedModes = <<>>
        /\ \A s \in Sockets, m \in Range(gameModes) :
              lobbyModeBan(s, TheLobby, m, RawNameOf(s)) = Miss(<<>>)

\* a 2-mode lobby whose first team holds canModeBan
TwoModesModeBanGranted ==
    /\ TwoModes
    /\ \E s \in Captains : caps[s]["canWorkUpdated"] /\ caps[s]["canModeBan"]

(***************************************************************************)
(* C35: the round history                                                  *)
(***************************************************************************)
\* roundHistory holds one entry per finished round: entry i is round i's
HistoryPerRound(l) ==
    /\ Len(l.roundHistory) = l.rules.roundNumber - 1
    /\ \A i \in 1..Len(l.roundHistory) : l.roundHistory[i].roundNumber = i

\* the step is a confirmWinner with confirmed = true naming winnerTeam
ConfirmsWinner(winnerTeam) ==
    \E s \in Captains :
        /\ Offers(s, "canReportWinner")
        /\ Do(TheLobby, lobbyConfirmWinner(TheLobby, winnerTeam, TRUE, RawNameOf(s)))

\* C35, the step: a confirmWinner with confirmed = true appends exactly one
\* entry {roundNumber of the round, pickedMaps, pickedMode} to roundHistory,
\* sets rules.lastWinner to winnerTeam, raises rules.roundNumber by exactly 1
\* and begins the next round
ConfirmAppendsHistory ==
    [][\A winnerTeam \in Names :
          ConfirmsWinner(winnerTeam)
              => LET l == lobbies[TheLobby]
                     l1 == lobbies'[TheLobby]
                 IN  /\ l1.roundHistory = Append(l.roundHistory, HistoryEntry(l))
                     /\ l1.rules.lastWinner = winnerTeam
                     /\ l1.rules.roundNumber = l.rules.roundNumber + 1
                     /\ l1.priorityTeam = winnerTeam
                     /\ l1.gameStep = 0 /\ l1.bannedModes = <<>>]_vars

\* C35: a confirmWinner with confirmed = true appends one entry to
\* roundHistory, sets rules.lastWinner and raises rules.roundNumber by 1, so
\* in every state |roundHistory| = roundNumber - 1 and roundHistory holds one
\* entry per round number
HistoryCountsRounds ==
    (HasLobby /\ lobbies[TheLobby].family = "splatoon")
        => HistoryPerRound(lobbies[TheLobby])

\* a second round entered with an empty roundHistory
RoundWithoutHistory ==
    /\ HasLobby /\ lobbies[TheLobby].family = "splatoon"
    /\ lobbies[TheLobby].rules.roundNumber = 2
    /\ lobbies[TheLobby].roundHistory = <<>>

\* a second round entered by a confirmation, round 1 in roundHistory
RoundOneInHistory ==
    /\ HasLobby /\ lobbies[TheLobby].family = "splatoon"
    /\ lobbies[TheLobby].rules.roundNumber = 2
    /\ Len(lobbies[TheLobby].roundHistory) = 1
    /\ lobbies[TheLobby].roundHistory[1].roundNumber = 1
    /\ Len(lobbies[TheLobby].roundHistory[1].pickedMaps) = 1
    /\ lobbies[TheLobby].rules.lastWinner \in {"A", "B"}

(***************************************************************************)
(* C36: the winner report                                                  *)
(***************************************************************************)
\* the step begins a new round of the lobby
RoundAdvances ==
    /\ HasLobby /\ TheLobby \in DOMAIN lobbies'
    /\ lobbies[TheLobby].family = "splatoon"
    /\ lobbies'[TheLobby].rules.roundNumber # lobbies[TheLobby].rules.roundNumber

\* the round's map has been picked
RoundMapPicked(l) ==
    \E i \in 1..Len(l.pickedMaps) : l.pickedMaps[i].roundNumber = l.rules.roundNumber

\* C36: a Splatoon round advances only in the winner-report phase after the
\* round's map pick and only by a member's confirmWinner with confirmed = true
\* of the proposed winnerTeam, which becomes lastWinner; a reportWinner or
\* winnerReported event alone never advances the round
RoundAdvancesByConfirmation ==
    [][RoundAdvances
          => /\ RoundMapPicked(lobbies[TheLobby])
             /\ \E winnerTeam \in Names :
                   /\ ConfirmsWinner(winnerTeam)
                   /\ lobbies'[TheLobby].rules.lastWinner = winnerTeam]_vars

\* the part of C36 about the phase: a round advances only after its map pick
RoundAdvancesAfterPick ==
    [][RoundAdvances => RoundMapPicked(lobbies[TheLobby])]_vars

(***************************************************************************)
(* SpecNames: an FPS ceremony whose captains register any team name, equal *)
(* names included.  A client puts the name it registered into its events   *)
(* and uses a control only while its capability is on.                     *)
(***************************************************************************)
\* the team name captain s registered
OwnName(s) == TeamOf(lobbies[TheLobby].teamNames, s)

NameAny ==
    \E s \in Captains, name \in Names, flip \in Flips :
        /\ HasLobby /\ s \in lobbies[TheLobby].members
        /\ ~HasTeam(lobbies[TheLobby].teamNames, s)
        /\ Do(TheLobby, lobbyTeamName(s, TheLobby, name, flip))

BanOwn ==
    \E s \in Captains :
        /\ Turn(s, "canBan")
        /\ \E map \in Choices :
              Do(TheLobby, lobbyBan(s, TheLobby, map, OwnName(s)))

StartPickOwn ==
    \E s \in Captains :
        /\ Turn(s, "canPick")
        /\ lobbies[TheLobby].rules.gameType # "bo1"
        /\ \E map \in Choices :
              LET r == lobbyStartPick(s, TheLobby, OwnName(s))
              IN  /\ Commit(TheLobby, r)
                  /\ startPick' = [x \in Sockets |->
                                      IF x \in Asked(r.emits) THEN map ELSE startPick[x]]

SidePickOwn ==
    \E s \in Captains, side \in MatchSides :
        /\ HasLobby /\ s \in connected /\ startPick[s] # ""
        /\ Commit(TheLobby, lobbyPick(s, TheLobby, startPick[s], OwnName(s), side))
        /\ startPick' = [startPick EXCEPT ![s] = ""]

PickOwn ==
    \E s \in Captains, side \in MatchSides :
        /\ Turn(s, "canPick")
        /\ lobbies[TheLobby].rules.gameType = "bo1"
        /\ \E map \in Choices :
              Do(TheLobby, lobbyPick(s, TheLobby, map, OwnName(s), side))

NextNames ==
    \/ CreateMatch
    \/ JoinMatch
    \/ NameAny
    \/ BanOwn
    \/ StartPickOwn
    \/ SidePickOwn
    \/ PickOwn

SpecNames == Init /\ [][NextNames]_vars

\* the ceremony of the lobby has started with two teams and is not over
CeremonyRunning ==
    /\ HasLobby /\ lobbies[TheLobby].family = "fps"
    /\ Len(lobbies[TheLobby].teamNames) = 2
    /\ lobbies[TheLobby].gameStep < 7

\* captain s can act: it holds canWorkUpdated with canBan or canPick, or it was
\* handed a side selection
CanAct(s) ==
    \/ caps[s]["canWorkUpdated"] /\ (caps[s]["canBan"] \/ caps[s]["canPick"])
    \/ startPick[s] # ""

\* C37: for any two team names the members register, equal names included, an
\* FPS ceremony started with two teams makes progress: in every state before
\* gameStep >= 7 some member can act, so the lobby reaches gameStep >= 7 when
\* the member that can act always does
CeremonyNeverStalls ==
    CeremonyRunning => \E s \in Captains : CanAct(s)

\* the same for teams that registered different names
NamedApartNeverStalls ==
    (CeremonyRunning /\ lobbies[TheLobby].teamNames[1].name # lobbies[TheLobby].teamNames[2].name)
        => \E s \in Captains : CanAct(s)

\* two teams of the same name: one ban was made and nobody can act
SameNameStalled ==
    /\ CeremonyRunning
    /\ lobbies[TheLobby].teamNames[1].name = lobbies[TheLobby].teamNames[2].name
    /\ Len(lobbies[TheLobby].bannedMaps) = 1
    /\ \A s \in Sockets : ~CanAct(s)

(***************************************************************************)
(* C38: the ceremony is started once                                       *)
(***************************************************************************)
\* C38: once startGame has run for a lobby (two teams named, admin mode off),
\* a later lobby.teamName event does not run startGame again: it grants and
\* withdraws no capability, arms no timer and leaves gameStep alone
CeremonyStartsOnce ==
    [][\A s \in Captains, flip \in Flips :
          (/\ HasLobby
           /\ Len(lobbies[TheLobby].teamNames) = 2
           /\ ~lobbies[TheLobby].rules.admin
           /\ Do(TheLobby, lobbyTeamName(s, TheLobby, RawNameOf(s), flip)))
              => /\ caps' = caps
                 /\ timers' = timers
                 /\ lobbies'[TheLobby].gameStep = lobbies[TheLobby].gameStep]_vars

\* a ceremony restarted under way: team A banned a mode and, having sent its
\* name again, holds the mode ban once more while team B holds nothing
RestartedMidCeremony ==
    /\ HasLobby /\ lobbies[TheLobby].family = "splatoon"
    /\ Len(lobbies[TheLobby].bannedModes) = 1
    /\ lobbies[TheLobby].bannedModes[1].teamName = "A"
    /\ caps["s1"]["canWorkUpdated"] /\ caps["s1"]["canModeBan"]
    /\ \A c \in CapNames : ~caps["s2"][c]

(***************************************************************************)
(* C39: a deleted lobby and the connections that had joined it             *)
(***************************************************************************)
\* C39: after admin.delete(L) no connection, member or observer, still lists L
\* in socket.data.lobbies, so the later disconnect of a connection that had
\* joined the deleted lobby never removes members from, or deletes, a lobby
\* created afterwards with the same id
DeletedLobbyForgotten ==
    [][/\ (HasLobby /\ adminDelete(TheLobby))
             => \A s \in connected : TheLobby \notin sockLobbies'[s]
       /\ \A s \in connected :
             (/\ HasLobby
              /\ s \notin lobbies[TheLobby].members \cup lobbies[TheLobby].observers
              /\ disconnect(s))
                => lobbies' = lobbies]_vars

\* the part of C39 about members: after admin.delete(L) no connected member of
\* L lists it any more
DeletedLobbyForgottenByMembers ==
    [][(HasLobby /\ adminDelete(TheLobby))
          => \A s \in connected \cap lobbies[TheLobby].members :
                TheLobby \notin sockLobbies'[s]]_vars

\* a lobby created again under the id of a deleted one, which a connected
\* observer of the deleted one still lists without having joined the new one
StaleObserverListsNewLobby ==
    /\ HasLobby
    /\ lobbies[TheLobby].members = {} /\ lobbies[TheLobby].observers = {}
    /\ \E s \in connected : TheLobby \in sockLobbies[s]

(***************************************************************************)
(* C40: the last winner is one of the teams                                *)
(***************************************************************************)
\* the members of lobby l whose team name is rules.lastWinner
WinningMembers(l) ==
    {i \in 1..Len(l.teamNames) : l.teamNames[i].name = l.rules.lastWinner}

\* rules.lastWinner is unset, or the name of a team of the lobby
LastWinnerUnsetOrTeam(l) ==
    l.rules.lastWinner \in {Absent, Undefined} \/ WinningMembers(l) # {}

\* C40: in every state of a Splatoon lobby rules.lastWinner is either unset or
\* the team name of one of the lobby's members in teamNames, so that in every
\* round N > 1 exactly one member is treated as the winning team by the ban logic
LastWinnerIsAMember ==
    (HasLobby /\ lobbies[TheLobby].family = "splatoon")
        => /\ LastWinnerUnsetOrTeam(lobbies[TheLobby])
           /\ lobbies[TheLobby].rules.roundNumber > 1
                 => Cardinality(WinningMembers(lobbies[TheLobby])) = 1

\* the first half of C40 alone
LastWinnerNamesATeam ==
    (HasLobby /\ lobbies[TheLobby].family = "splatoon")
        => LastWinnerUnsetOrTeam(lobbies[TheLobby])

\* a second round in which neither team is the winning team
RoundWithoutWinner ==
    /\ HasLobby /\ lobbies[TheLobby].family = "splatoon"
    /\ lobbies[TheLobby].rules.roundNumber = 2
    /\ Len(lobbies[TheLobby].teamNames) = 2
    /\ WinningMembers(lobbies[TheLobby]) = {}
====
